---- MODULE Spec2Model ----
(***************************************************************************)
(* Conversation Logger API: the HTTP handlers of the two revisions kept in *)
(* the repository, over a relational store.                                *)
(*                                                                         *)
(*   rev = "srv"  src/server.py (API 2.0.0): self-referencing sujet and    *)
(*                action tables.                                           *)
(*   rev = "db1"  src/db.py (API 1.7.0), primary database                  *)
(*                (get_connection): sujet / sous_sujet / action /          *)
(*                sous_action / sous_sous_action, a fixed 3-level tree.    *)
(*   rev = "db2"  src/db.py, secondary database (get_connection_1): the    *)
(*                recursive /v2 sujet and action trees.                    *)
(*                                                                         *)
(* A behaviour is one client sending whole requests (focus                  *)
(* "conversations", "sujets" or "actions"), or two clients whose requests  *)
(* run statement by statement, each on its own connection (focus           *)
(* "clients").                                                             *)
(*                                                                         *)
(* A table is a set of rows (records); NULL is 0 (ids start at 1); a       *)
(* string is a sequence of one-character strings; Optional[List] is a      *)
(* record [isNone, items].                                                 *)
(***************************************************************************)
EXTENDS Integers, Sequences, FiniteSets, TLC

\* ------------------------------------------------------------------ bounds
MaxConv == 2
MaxSujet == 2
MaxSousSujet == 2
MaxAction == 3
MaxNodes == 3
MaxLoaded == 3

\* The legacy bulk payload nests action > sous_action > sous_sous_action.
LegacyDepth == 3

Revs == {"srv", "db1", "db2"}
NULL == 0

\* ------------------------------------------------------------------ values
None == [isNone |-> TRUE, items |-> <<>>]
List(s) == [isNone |-> FALSE, items |-> s]

\* Python's `xs or None`.
OrNone(s) == IF s = <<>> THEN None ELSE List(s)

\* Python's `xs or []` / `if xs:` iteration over an Optional[List].
Items(o) == IF o.isNone THEN <<>> ELSE o.items

Blank == <<" ">>
TaskNames == << <<"A">>, <<"B">>, <<"C">>, <<"D">>, <<"E">>, <<"F">> >>
TaskName(i) == TaskNames[((i - 1) % Len(TaskNames)) + 1]

RECURSIVE LStrip(_)
LStrip(s) == IF s # <<>> /\ Head(s) = " " THEN LStrip(Tail(s)) ELSE s

RECURSIVE RStrip(_)
RStrip(s) ==
    IF s # <<>> /\ s[Len(s)] = " " THEN RStrip(SubSeq(s, 1, Len(s) - 1)) ELSE s

\* str.strip()
Strip(s) == RStrip(LStrip(s))

RECURSIVE SeqSum(_)
SeqSum(s) == IF s = <<>> THEN 0 ELSE Head(s) + SeqSum(Tail(s))

RECURSIVE SeqMax(_)
SeqMax(s) ==
    IF s = <<>> THEN 0
    ELSE LET m == SeqMax(Tail(s)) IN IF Head(s) > m THEN Head(s) ELSE m

\* ------------------------------------------------------------------ payloads
\* A payload node is [label, children]: label is the node's required text (task
\* of an action, titre of a sujet), children an Optional[List] of nodes. Nodes are
\* labelled in pre-order, so a node's label names its place.
RECURSIVE ForestsN(_, _)
RECURSIVE TreesN(_, _)
ForestsN(n, first) ==
    IF n = 0 THEN {<<>>}
    ELSE UNION {
        { <<t>> \o rest : t \in TreesN(k, first), rest \in ForestsN(n - k, first + k) }
        : k \in 1..n }
TreesN(k, first) ==
    { [label |-> TaskName(first), children |-> OrNone(c)] : c \in ForestsN(k - 1, first + 1) }

RECURSIVE Size(_)
Size(t) == 1 + SeqSum([i \in 1..Len(Items(t.children)) |-> Size(Items(t.children)[i])])

ForestSize(f) == SeqSum([i \in 1..Len(f) |-> Size(f[i])])

RECURSIVE Depth(_)
Depth(t) == 1 + SeqMax([i \in 1..Len(Items(t.children)) |-> Depth(Items(t.children)[i])])

ForestDepth(f) == SeqMax([i \in 1..Len(f) |-> Depth(f[i])])

\* The node lists a client may send: up to MaxNodes nodes in all.
Forests == UNION { ForestsN(n, 1) : n \in 0..MaxNodes }
Trees == UNION { TreesN(n, 1) : n \in 1..MaxNodes }
OneNode == ForestsN(1, 1)
OneTree == TreesN(1, 1)

\* The payloads of at most n nodes.
ForestsBySize == [n \in 0..MaxNodes |-> ForestsN(n, 1)]
TreesBySize == [n \in 1..MaxNodes |-> TreesN(n, 1)]
Min(a, b) == IF a < b THEN a ELSE b
ForestsUpTo(n) == UNION { ForestsBySize[m] : m \in 0..Min(n, MaxNodes) }
TreesUpTo(n) == UNION { TreesBySize[m] : m \in 1..Min(n, MaxNodes) }

\* The payload with the label of its k-th node (pre-order) replaced by v.
RECURSIVE SetLabelF(_, _, _)
RECURSIVE SetLabelT(_, _, _)
SetLabelF(f, k, v) ==
    IF f = <<>> THEN <<>>
    ELSE <<SetLabelT(Head(f), k, v)>> \o SetLabelF(Tail(f), k - Size(Head(f)), v)
SetLabelT(t, k, v) ==
    [label |-> IF k = 1 THEN v ELSE t.label,
     children |-> IF t.children.isNone THEN None
                  ELSE List(SetLabelF(t.children.items, k - 1, v))]

\* The labels of a payload, in pre-order.
RECURSIVE LabelsF(_)
RECURSIVE LabelsT(_)
LabelsF(f) == IF f = <<>> THEN <<>> ELSE LabelsT(Head(f)) \o LabelsF(Tail(f))
LabelsT(t) == <<t.label>> \o LabelsF(Items(t.children))

\* ------------------------------------------------------------------ state
VARIABLES
    rev,               \* the application and database a behaviour exercises
    focus,             \* the part of the hierarchy its client works on
    conversations,     \* table conversations
    sujet,             \* table sujet
    sous_sujet,        \* table sous_sujet (db1)
    action,            \* table action
    sous_action,       \* table sous_action (db1)
    sous_sous_action,  \* table sous_sous_action (db1)
    seq,               \* the id sequence of each table (last value handed out)
    resp,              \* the last request and its response
    sessions           \* the requests in progress of the concurrent clients

vars == <<rev, focus, conversations, sujet, sous_sujet, action, sous_action, sous_sous_action,
          seq, resp, sessions>>

tables == <<conversations, sujet, sous_sujet, action, sous_action, sous_sous_action>>

TableNames ==
    {"conversations", "sujet", "sous_sujet", "action", "sous_action", "sous_sous_action"}

Ids(T) == { r.id : r \in T }
Row(T, i) == CHOOSE r \in T : r.id = i

\* SELECT ... ORDER BY id ASC
RECURSIVE OrderByIdDesc(_)
OrderByIdDesc(T) ==
    IF T = {} THEN <<>>
    ELSE LET m == CHOOSE r \in T : \A q \in T : r.id >= q.id
         IN <<m>> \o OrderByIdDesc(T \ {m})
RECURSIVE OrderById(_)
OrderById(T) ==
    IF T = {} THEN <<>>
    ELSE LET m == CHOOSE r \in T : \A q \in T : r.id <= q.id
         IN <<m>> \o OrderById(T \ {m})

\* The last exchange: the handler, the HTTP status, and for a 200 the request and
\* the response body; conn is the state, when the response is produced, of the
\* connection the request opened; detail is what an error body carries: the
\* handler's own text ("handler"), the text of the store's exception
\* ("exception") or the framework's "Internal Server Error" ("internal").
\* A 200 follows cur.close(); conn.close().
Response(op, status, req, body) ==
    [op |-> op, status |-> status, req |-> req, body |-> body, conn |-> "closed",
     detail |-> "none"]
\* cur.close(); conn.close(); raise HTTPException(status, ...), and the 422 of the
\* request validation, which opens no connection.
Error(op, status) == [Response(op, status, <<>>, <<>>) EXCEPT !.detail = "handler"]
\* raise HTTPException(...) between get_connection() and conn.close(), passed on by
\* `except HTTPException: raise`: no conn.close() is executed.
ErrorUnclosed(op, status) == [Error(op, status) EXCEPT !.conn = "open"]
\* except Exception as e: raise HTTPException(status_code=500, detail=f"...: {e}"):
\* the statement that raised is followed by no conn.close().
StoreError(op) == [Error(op, 500) EXCEPT !.detail = "exception", !.conn = "open"]
\* /v2: try: with conn, conn.cursor(): ... finally: conn.close(), and no except
\* clause: the store's exception leaves the handler and is answered by the
\* framework; an HTTPException leaves it through the same finally.
Unhandled(op) == [Error(op, 500) EXCEPT !.detail = "internal"]

\* pydantic Field(..., min_length=1)
MinLength1(s) == Len(s) >= 1

\* Each concurrent client has a connection of its own. Between two requests it
\* is idle; during one, pc is the statement it executes next, todo the nodes it
\* has to insert (pre-order, each with the place in todo of its payload parent),
\* ids the ids its inserts returned and own the rows it has not committed.
\* During a read, todo is the queries it has still to run and own the rows its
\* queries have fetched.
Clients == {"c1", "c2"}
Idle ==
    [pc |-> "idle", op |-> "none", scope |-> NULL, parent |-> NULL, todo |-> <<>>,
     ids |-> <<>>, own |-> {}]

Init ==
    /\ rev \in Revs
    /\ focus \in {"conversations", "listing", "sujets", "actions", "clients", "readers"}
    /\ focus = "readers" => rev \in {"srv", "db1"}
    /\ focus \in {"conversations", "listing"} => rev \in {"srv", "db1"}
    /\ sessions = [c \in Clients |-> Idle]
    /\ conversations = {}
    /\ sujet = {}
    /\ sous_sujet = {}
    /\ action = {}
    /\ sous_action = {}
    /\ sous_sous_action = {}
    /\ seq = [t \in TableNames |-> 0]
    /\ resp = Response("none", 0, <<>>, <<>>)

\* ------------------------------------------------------------------ transactions
\* A transaction: the rows inserted and not yet committed (each with its table),
\* the id sequences, the number of INSERTs executed, whether an exception is
\* propagating and the status it carries, and the value returned by the last call.
\* failAt = k makes the k-th statement of the transaction raise a store exception
\* (the commit counts as one more statement); 0 means none does. A sequence value
\* handed out is not given back by a rollback.
Begin(failAt) ==
    [rows |-> {}, seq |-> seq, count |-> 0, failAt |-> failAt, raised |-> FALSE,
     status |-> 200, out |-> <<>>]

\* cur.execute("INSERT ... RETURNING id"): the transaction after the insert of row
\* (its id is NextId(tx, table)) into table.
NextId(tx, table) == tx.seq[table] + 1
Insert(tx, table, row) ==
    [tx EXCEPT !.rows = @ \cup {<<table, row>>}, !.seq[table] = row.id, !.count = @ + 1]

\* The exception a failing statement, or a handler's raise HTTPException, starts.
Raise(tx, status) == [tx EXCEPT !.raised = TRUE, !.status = status]

Raises(tx) == tx.failAt = tx.count + 1

\* try: ...; conn.commit()  except Exception: conn.rollback(); raise
\* and psycopg2's `with conn:` block: commit on normal exit, rollback on exception.
Failed(tx) == tx.raised \/ Raises(tx)
Inserted(tx, table) == { p[2] : p \in { q \in tx.rows : q[1] = table } }
EndTxCommitsOnError(T, table, tx) == T \cup Inserted(tx, table)
EndTx(T, table, tx) == IF Failed(tx) THEN T ELSE T \cup Inserted(tx, table)

\* except HTTPException: raise / except Exception: raise HTTPException(500)
TxStatus(tx) == IF tx.raised THEN tx.status ELSE IF Raises(tx) THEN 500 ELSE 200

\* The answer to a transaction that failed. server.py and the legacy endpoints
\* of db.py: `except Exception: conn.rollback(); raise` then the outer except
\* clauses, none of which closes the connection. /v2: the `with` block rolls
\* back, finally closes, and nothing catches the store's exception.
TxError(op, tx) ==
    IF TxStatus(tx) = 500 THEN StoreError(op) ELSE ErrorUnclosed(op, TxStatus(tx))
TxErrorV2(op, tx) ==
    IF TxStatus(tx) = 500 THEN Unhandled(op) ELSE Error(op, TxStatus(tx))

\* ------------------------------------------------------------------ conversations
\* A base64 text is known by its number of alphabet characters (data), the
\* number of trailing "=" (pad) and whether every other character is in the
\* alphabet (clean). Optional[str]: isNone.
NoImage == [isNone |-> TRUE, data |-> 0, pad |-> 0, clean |-> TRUE]
Base64(data, pad, clean) == [isNone |-> FALSE, data |-> data, pad |-> pad, clean |-> clean]

\* base64.b64decode(s, validate=True): the outcomes the interpreter can produce,
\* each the number of bytes decoded or binascii.Error. A character outside the
\* alphabet, a lone last character and a missing "=" raise; 4 characters give 3
\* bytes, 2 characters and "==" one byte, 3 characters and "=" two bytes. "="
\* beyond what completes the last group is skipped by binascii.a2b_base64 and
\* refused by its strict mode, which b64decode uses from Python 3.11 on.
Invalid == [ok |-> FALSE, len |-> 0]
Decoded(n) == [ok |-> TRUE, len |-> n]
b64decode(s) ==
    LET q == s.data \div 4
        r == s.data % 4
    IN IF ~s.clean \/ r = 1 \/ s.pad > 2 THEN {Invalid}
       ELSE IF r = 0 THEN IF s.pad = 0 THEN {Decoded(3 * q)}
                          ELSE {Decoded(3 * q), Invalid}
       ELSE IF r = 2 THEN IF s.pad = 2 THEN {Decoded(3 * q + 1)} ELSE {Invalid}
       ELSE IF s.pad = 1 THEN {Decoded(3 * q + 2)}
       ELSE IF s.pad = 2 THEN {Decoded(3 * q + 2), Invalid}
       ELSE {Invalid}

\* if len(image_bytes) > 10 * 1024 * 1024 (= 10485760)
MaxImageBytes == 10485760
TooLargeFromLimit(n) == n >= MaxImageBytes
TooLarge(n) == n > MaxImageBytes

\* BYTEA column: NULL, or the bytes (their number).
NoBytes == [isNone |-> TRUE, len |-> 0]
Bytes(n) == [isNone |-> FALSE, len |-> n]

\* Optional[str]: None or a text; `s or None` stores the empty text as NULL.
NoText == [isNone |-> TRUE, text |-> <<>>]
Text(s) == [isNone |-> FALSE, text |-> s]
TextOrNone(o) == IF o.isNone \/ o.text = <<>> THEN NoText ELSE o

\* class ConversationIn: user_name and conversation have min_length=1. server.py's
\* class has no image_base64, image_mime and image_filename fields, and a key
\* the class does not declare is dropped when the body is parsed.
ConversationIn(body) ==
    IF rev = "srv"
    THEN [body EXCEPT !.image_base64 = NoImage, !.image_mime = NoText,
                      !.image_filename = NoText]
    ELSE body
ConversationInValid(body) == MinLength1(body.user_name) /\ MinLength1(body.conversation)

\* POST /save-conversation. now is datetime.utcnow(); fails: the INSERT (or the
\* commit) raises a store exception.
save_conversation(body, now, fails) ==
    /\ rev \in {"srv", "db1"}
    /\ seq["conversations"] < MaxConv
    /\ LET op == "save_conversation"
           payload == ConversationIn(body)
           new_id == seq["conversations"] + 1
           date_conv == IF payload.date_conversation # NULL
                        THEN payload.date_conversation ELSE now
           given == ~payload.image_base64.isNone
                    /\ payload.image_base64.data + payload.image_base64.pad > 0
       IN IF ~ConversationInValid(body)
          THEN /\ resp' = Error(op, 422)
               /\ UNCHANGED <<conversations, seq>>
          ELSE \E image \in IF given THEN b64decode(payload.image_base64) ELSE {Invalid} :
                 IF given /\ ~image.ok
                 THEN /\ resp' = ErrorUnclosed(op, 422)
                      /\ UNCHANGED <<conversations, seq>>
                 ELSE IF given /\ TooLarge(image.len)
                 THEN /\ resp' = ErrorUnclosed(op, 413)
                      /\ UNCHANGED <<conversations, seq>>
                 ELSE IF fails
                 THEN /\ resp' = StoreError(op)
                      /\ UNCHANGED <<conversations, seq>>
                 ELSE /\ conversations' = conversations \cup
                            {[id |-> new_id,
                              user_name |-> Strip(payload.user_name),
                              conversation |-> payload.conversation,
                              date_conversation |-> date_conv,
                              image_data |-> IF given THEN Bytes(image.len) ELSE NoBytes,
                              image_mime |-> TextOrNone(payload.image_mime),
                              image_filename |-> TextOrNone(payload.image_filename)]}
                      /\ seq' = [seq EXCEPT !["conversations"] = new_id]
                      /\ resp' = Response(op, 200, body, [id |-> new_id])
    /\ UNCHANGED <<rev, focus, sujet, sous_sujet, action, sous_action, sous_sous_action>>

\* GET /conversations/{id}: db.py's ConversationDetail has has_image, image_mime
\* and image_filename beside the four columns of server.py's.
ConversationDetailSwapped(row) ==
    LET d == [id |-> row.id, user_name |-> row.conversation,
              date_conversation |-> row.date_conversation,
              conversation |-> row.user_name]
    IN IF rev = "srv" THEN d
       ELSE [id |-> d.id, user_name |-> d.user_name,
             date_conversation |-> d.date_conversation, conversation |-> d.conversation,
             has_image |-> ~row.image_data.isNone,
             image_mime |-> row.image_mime, image_filename |-> row.image_filename]
ConversationDetail(row) ==
    LET d == [id |-> row.id, user_name |-> row.user_name,
              date_conversation |-> row.date_conversation,
              conversation |-> row.conversation]
    IN IF rev = "srv" THEN d
       ELSE [id |-> d.id, user_name |-> d.user_name,
             date_conversation |-> d.date_conversation, conversation |-> d.conversation,
             has_image |-> ~row.image_data.isNone,
             image_mime |-> row.image_mime, image_filename |-> row.image_filename]
get_conversation_by_id(id) ==
    /\ rev \in {"srv", "db1"}
    /\ resp' = IF id \notin Ids(conversations)
               THEN Error("get_conversation_by_id", 404)
               ELSE Response("get_conversation_by_id", 200, [id |-> id],
                             ConversationDetail(Row(conversations, id)))
    /\ UNCHANGED <<rev, focus, conversations, sujet, sous_sujet, action, sous_action,
                   sous_sous_action, seq>>

\* GET /conversations/{id}/image (db.py): media_type=(image_mime or
\* "application/octet-stream"), and a Content-Disposition header naming the file
\* when image_filename is set.
OctetStream == <<"o">>
MediaTypeDefault(image_mime) == OctetStream
MediaType(image_mime) ==
    IF image_mime.isNone \/ image_mime.text = <<>> THEN OctetStream ELSE image_mime.text
Headers(image_filename) ==
    IF image_filename.isNone \/ image_filename.text = <<>> THEN NoText
    ELSE Text(<<"attachment">> \o image_filename.text)
download_conversation_image(id) ==
    /\ rev = "db1"
    /\ LET op == "download_conversation_image"
           row == Row(conversations, id)
       IN resp' = IF id \notin Ids(conversations) THEN Error(op, 404)
                  ELSE IF row.image_data.isNone THEN Error(op, 404)
                  ELSE Response(op, 200, [id |-> id],
                                [content |-> row.image_data,
                                 media_type |-> MediaType(row.image_mime),
                                 headers |-> Headers(row.image_filename)])
    /\ UNCHANGED <<rev, focus, conversations, sujet, sous_sujet, action, sous_action,
                   sous_sous_action, seq>>

\* GET /conversations. str.lower() and LOWER(): the letters of the model's texts.
LowerChar(c) == IF c = "M" THEN "m" ELSE IF c = "Q" THEN "q" ELSE c
Lower(s) == [i \in 1..Len(s) |-> LowerChar(s[i])]

\* text LIKE pattern: "%" stands for any run of characters, "_" for any one.
RECURSIVE Like(_, _)
Like(text, pattern) ==
    IF pattern = <<>> THEN text = <<>>
    ELSE IF Head(pattern) = "%"
    THEN Like(text, Tail(pattern)) \/ (text # <<>> /\ Like(Tail(text), pattern))
    ELSE /\ text # <<>>
         /\ Head(pattern) = "_" \/ Head(pattern) = Head(text)
         /\ Like(Tail(text), Tail(pattern))

\* DATE(date_conversation AT TIME ZONE 'UTC'): a timestamp counts half days, day
\* d holding the timestamps 2d - 1 and 2d. BadDate is a text that is no date:
\* the comparison with it raises in the store.
TicksPerDay == 2
Date(ts) == (ts + 1) \div TicksPerDay
BadDate == -1

\* The WHERE clause: `if date:` and `if user_name:` add a condition only for a
\* parameter that is given and not empty (NULL, <<>>).
Matches(row, date, user_name) ==
    /\ date # NULL => Date(row.date_conversation) = date
    /\ user_name # <<>> =>
         Like(Lower(row.user_name), <<"%">> \o Lower(user_name) \o <<"%">>)

\* ORDER BY date_conversation DESC, id DESC
FirstById(a, b) == a.id > b.id
First(a, b) ==
    \/ a.date_conversation > b.date_conversation
    \/ a.date_conversation = b.date_conversation /\ a.id > b.id
RECURSIVE OrderByDateDescIdDesc(_)
OrderByDateDescIdDesc(T) ==
    IF T = {} THEN <<>>
    ELSE LET m == CHOOSE r \in T : \A q \in T \ {r} : First(r, q)
         IN <<m>> \o OrderByDateDescIdDesc(T \ {m})

\* LIMIT %s OFFSET %s
LimitOffset(rows, limit, offset) ==
    IF offset >= Len(rows) THEN <<>>
    ELSE SubSeq(rows, offset + 1, Min(offset + limit, Len(rows)))

\* preview = conv[:140]
PreviewLength == 140
ConversationSummary(row) ==
    [id |-> row.id, user_name |-> row.user_name,
     date_conversation |-> row.date_conversation,
     preview |-> SubSeq(row.conversation, 1, Min(PreviewLength, Len(row.conversation)))]

\* limit: int = Query(50, ge=1, le=200); offset: int = Query(0, ge=0)
DefaultLimit == 50
MaxLimit == 200
list_conversations(date, user_name, limit, offset) ==
    /\ rev \in {"srv", "db1"}
    /\ LET op == "list_conversations"
           found == { r \in conversations : Matches(r, date, user_name) }
           rows == LimitOffset(OrderByDateDescIdDesc(found), limit, offset)
       IN resp' =
            IF limit < 1 \/ limit > MaxLimit \/ offset < 0 THEN Error(op, 422)
            ELSE IF date = BadDate THEN StoreError(op)
            ELSE Response(op, 200,
                          [date |-> date, user_name |-> user_name, limit |-> limit,
                           offset |-> offset],
                          [items |-> [i \in 1..Len(rows) |-> ConversationSummary(rows[i])],
                           total |-> Cardinality(found)])
    /\ UNCHANGED <<rev, focus, conversations, sujet, sous_sujet, action, sous_action,
                   sous_sous_action, seq>>

\* ------------------------------------------------------------------ server.py
SujetLabels == {<<"x">>, <<>>}

\* POST /sujets (server.py), had it not compared the parent's conversation.
create_sujet_status_any_scope(conversation_id, label, parent_id) ==
    IF ~MinLength1(label) THEN 422
    ELSE IF conversation_id \notin Ids(conversations) THEN 404
    ELSE IF parent_id # NULL /\ parent_id \notin Ids(sujet) THEN 404
    ELSE 200
\* POST /sujets (server.py): the status the validations answer, 200 when all pass.
create_sujet_status(conversation_id, label, parent_id) ==
    IF ~MinLength1(label) THEN 422
    ELSE IF conversation_id \notin Ids(conversations) THEN 404
    ELSE IF parent_id # NULL /\ parent_id \notin Ids(sujet) THEN 404
    ELSE IF parent_id # NULL /\ Row(sujet, parent_id).conversation_id # conversation_id THEN 400
    ELSE 200

create_sujet(conversation_id, label, parent_id) ==
    /\ rev = "srv"
    /\ LET st == create_sujet_status(conversation_id, label, parent_id)
           req == [conversation_id |-> conversation_id, sujet |-> label, parent_id |-> parent_id]
       IN IF st # 200
          THEN /\ resp' = Error("create_sujet", st)
               /\ UNCHANGED <<sujet, seq>>
          ELSE /\ seq["sujet"] < MaxSujet
               /\ LET r == [id |-> seq["sujet"] + 1, conversation_id |-> conversation_id,
                            sujet |-> label, parent_id |-> parent_id]
                  IN /\ sujet' = sujet \cup {r}
                     /\ seq' = [seq EXCEPT !["sujet"] = r.id]
                     /\ resp' = Response("create_sujet", 200, req, r)
    /\ UNCHANGED <<rev, focus, conversations, sous_sujet, action, sous_action, sous_sous_action>>

\* POST /actions (server.py), had it not looked the parent action up.
create_action_status_any_parent(sujet_id, parent_action_id) ==
    IF sujet_id \notin Ids(sujet) THEN 404 ELSE 200

\* POST /actions (server.py): the status the validations answer.
create_action_status(sujet_id, parent_action_id) ==
    IF sujet_id \notin Ids(sujet) THEN 404
    ELSE IF parent_action_id # NULL /\ parent_action_id \notin Ids(action) THEN 404
    ELSE IF parent_action_id # NULL /\ Row(action, parent_action_id).sujet_id # sujet_id THEN 400
    ELSE 200

\* Status = Literal["nouvelle", "en_cours", "bloquee", "terminee", "annulee"]
Statuses == {"nouvelle", "en_cours", "bloquee", "terminee", "annulee"}

\* status: Status = "nouvelle": the status of a node of a body, the default when
\* the body gives none.
StatusOf(node) == IF "status" \in DOMAIN node THEN node.status ELSE "nouvelle"
WithStatus(node, status) ==
    [label |-> node.label, children |-> node.children, status |-> status]

\* The request validation of the status of every node of a body.
ValidStatusAny(nodes) == TRUE
RECURSIVE ValidStatus(_)
ValidStatus(nodes) ==
    \A i \in 1..Len(nodes) :
        StatusOf(nodes[i]) \in Statuses /\ ValidStatus(Items(nodes[i].children))

ActionRow(id, sujet_id, task, status, parent_action_id) ==
    [id |-> id, sujet_id |-> sujet_id, task |-> task, status |-> status,
     parent_action_id |-> parent_action_id]

\* POST /actions (server.py), had it moved the parent row under the new one
\* instead of only inserting.
create_action_moving_parent(sujet_id, task, status, parent_action_id) ==
    /\ rev = "srv"
    /\ LET st == create_action_status(sujet_id, parent_action_id)
           req == [sujet_id |-> sujet_id, task |-> task, status |-> status,
                   parent_action_id |-> parent_action_id]
       IN IF status \notin Statuses
          THEN /\ resp' = Error("create_action", 422)
               /\ UNCHANGED <<action, seq>>
          ELSE IF st # 200
          THEN /\ resp' = Error("create_action", st)
               /\ UNCHANGED <<action, seq>>
          ELSE /\ seq["action"] < MaxAction
               /\ LET r == ActionRow(seq["action"] + 1, sujet_id, task, status, NULL)
                  IN /\ action' = { IF q.id = parent_action_id
                                    THEN [q EXCEPT !.parent_action_id = r.id] ELSE q :
                                    q \in action } \cup {r}
                     /\ seq' = [seq EXCEPT !["action"] = r.id]
                     /\ resp' = Response("create_action", 200, req, r)
    /\ UNCHANGED <<rev, focus, conversations, sujet, sous_sujet, sous_action, sous_sous_action>>
create_action(sujet_id, task, status, parent_action_id) ==
    /\ rev = "srv"
    /\ LET st == create_action_status(sujet_id, parent_action_id)
           req == [sujet_id |-> sujet_id, task |-> task, status |-> status,
                   parent_action_id |-> parent_action_id]
       IN IF status \notin Statuses
          THEN /\ resp' = Error("create_action", 422)
               /\ UNCHANGED <<action, seq>>
          ELSE IF st # 200
          THEN /\ resp' = Error("create_action", st)
               /\ UNCHANGED <<action, seq>>
          ELSE /\ seq["action"] < MaxAction
               /\ LET r == ActionRow(seq["action"] + 1, sujet_id, task, status, parent_action_id)
                  IN /\ action' = action \cup {r}
                     /\ seq' = [seq EXCEPT !["action"] = r.id]
                     /\ resp' = Response("create_action", 200, req, r)
    /\ UNCHANGED <<rev, focus, conversations, sujet, sous_sujet, sous_action, sous_sous_action>>

\* "Validate subject": SELECT 1 FROM sujet WHERE id=%s; fetchone() is None
sujet_missing_never(sujet_id) == FALSE
sujet_missing(sujet_id) == sujet_id \notin Ids(sujet)

\* create_actions_bulk.insert_node (server.py): one INSERT, then the children with
\* the new id as their parent. tx.out is the list of nodes returned so far.
RECURSIVE insert_node(_, _, _, _)
RECURSIVE insert_nodes(_, _, _, _)
insert_node_under_grandparent(tx, node, sujet_id, parent_id) ==
    IF tx.raised THEN tx
    ELSE IF Raises(tx) THEN Raise(tx, 500)
    ELSE LET new_id == NextId(tx, "action")
             tx1 == Insert(tx, "action",
                           ActionRow(new_id, sujet_id, node.label, StatusOf(node), parent_id))
             tx2 == insert_nodes(tx1, Items(node.children), sujet_id, parent_id)
         IN [tx2 EXCEPT !.out = <<[id |-> new_id, children |-> OrNone(tx2.out)]>>]
insert_node(tx, node, sujet_id, parent_id) ==
    IF tx.raised THEN tx
    ELSE IF Raises(tx) THEN Raise(tx, 500)
    ELSE LET new_id == NextId(tx, "action")
             tx1 == Insert(tx, "action",
                           ActionRow(new_id, sujet_id, node.label, StatusOf(node), parent_id))
             tx2 == insert_nodes(tx1, Items(node.children), sujet_id, new_id)
         IN [tx2 EXCEPT !.out = <<[id |-> new_id, children |-> OrNone(tx2.out)]>>]
insert_nodes(tx, nodes, sujet_id, parent_id) ==
    IF nodes = <<>> THEN [tx EXCEPT !.out = <<>>]
    ELSE LET t1 == insert_node(tx, Head(nodes), sujet_id, parent_id)
             t2 == insert_nodes(t1, Tail(nodes), sujet_id, parent_id)
         IN [t2 EXCEPT !.out = t1.out \o t2.out]

\* POST /actions/bulk (server.py)
create_actions_bulk(sujet_id, items, failAt) ==
    /\ rev = "srv"
    /\ failAt <= ForestSize(items) + 1
    /\ LET req == [sujet_id |-> sujet_id, items |-> items] IN
       IF ~ValidStatus(items)
       THEN /\ resp' = Error("create_actions_bulk", 422)
            /\ UNCHANGED <<action, seq>>
       ELSE IF sujet_missing(sujet_id)
       THEN /\ resp' = Error("create_actions_bulk", 404)
            /\ UNCHANGED <<action, seq>>
       ELSE /\ seq["action"] + ForestSize(items) <= MaxAction
            /\ LET tx == insert_nodes(Begin(failAt), items, sujet_id, NULL)
               IN /\ action' = EndTx(action, "action", tx)
                  /\ seq' = tx.seq
                  /\ resp' = IF Failed(tx) THEN TxError("create_actions_bulk", tx)
                              ELSE Response("create_actions_bulk", 200, req, tx.out)
    /\ UNCHANGED <<rev, focus, conversations, sujet, sous_sujet, sous_action, sous_sous_action>>

\* GET /actions/tree (server.py): the forest built from the rows of one sujet.
RECURSIVE action_to_model_newest_first(_, _)
action_to_model_newest_first(rows, n) ==
    LET IsChild(r) == r.parent_action_id # NULL /\ r.parent_action_id = n.id
        ch == SelectSeq(rows, IsChild)
    IN [id |-> n.id, sujet_id |-> n.sujet_id, task |-> n.task, status |-> n.status,
        children |-> OrNone([i \in 1..Len(ch) |->
                               action_to_model_newest_first(rows, ch[Len(ch) + 1 - i])])]
RECURSIVE action_to_model(_, _)
action_to_model(rows, n) ==
    LET IsChild(r) == r.parent_action_id # NULL /\ r.parent_action_id = n.id
        ch == SelectSeq(rows, IsChild)
    IN [id |-> n.id, sujet_id |-> n.sujet_id, task |-> n.task, status |-> n.status,
        children |-> OrNone([i \in 1..Len(ch) |-> action_to_model(rows, ch[i])])]

\* GET /actions/tree (server.py), had it loaded the rows of every sujet.
actions_tree_of_all(sujet_id) ==
    LET rows == OrderById(action)
        nodes == { rows[i].id : i \in 1..Len(rows) }
        IsRoot(r) == ~(r.parent_action_id # NULL /\ r.parent_action_id \in nodes)
        roots == SelectSeq(rows, IsRoot)
    IN [i \in 1..Len(roots) |-> action_to_model(rows, roots[i])]

\* nodes, roots and to_model over the rows fetched.
actions_forest(rows) ==
    LET nodes == { rows[i].id : i \in 1..Len(rows) }
        IsRoot(r) == ~(r.parent_action_id # NULL /\ r.parent_action_id \in nodes)
        roots == SelectSeq(rows, IsRoot)
    IN [i \in 1..Len(roots) |-> action_to_model(rows, roots[i])]

actions_tree(sujet_id) == actions_forest(OrderById({ r \in action : r.sujet_id = sujet_id }))

list_actions_tree_by_sujet(sujet_id) ==
    /\ rev = "srv"
    /\ resp' = IF sujet_id \notin Ids(sujet)
               THEN Error("list_actions_tree_by_sujet", 404)
               ELSE Response("list_actions_tree_by_sujet", 200, [sujet_id |-> sujet_id],
                             actions_tree(sujet_id))
    /\ UNCHANGED <<rev, focus, seq>>
    /\ UNCHANGED tables

\* GET /sujets/tree (server.py): the subtree of root_id among the rows of its
\* conversation.
RECURSIVE sujet_to_model(_, _)
sujet_to_model(rows, n) ==
    LET IsChild(r) == r.parent_id # NULL /\ r.parent_id = n.id
        ch == SelectSeq(rows, IsChild)
    IN [id |-> n.id, sujet |-> n.sujet,
        children |-> OrNone([i \in 1..Len(ch) |-> sujet_to_model(rows, ch[i])])]

sujet_tree_from_parent(root_id) ==
    LET conv == Row(sujet, root_id).conversation_id
        rows == OrderById({ r \in sujet : r.conversation_id = conv })
        pid == Row(sujet, root_id).parent_id
    IN sujet_to_model(rows, IF pid # NULL THEN Row(sujet, pid) ELSE Row(sujet, root_id))
sujet_tree(root_id) ==
    LET conv == Row(sujet, root_id).conversation_id
        rows == OrderById({ r \in sujet : r.conversation_id = conv })
    IN sujet_to_model(rows, Row(sujet, root_id))

get_sujet_tree(root_id) ==
    /\ rev = "srv"
    /\ resp' = IF root_id \notin Ids(sujet)
               THEN Error("get_sujet_tree", 404)
               ELSE Response("get_sujet_tree", 200, [root_id |-> root_id], sujet_tree(root_id))
    /\ UNCHANGED <<rev, focus, seq>>
    /\ UNCHANGED tables

\* GET /sujets/{id} (server.py)
get_sujet_by_id(id) ==
    /\ rev = "srv"
    /\ resp' = IF id \notin Ids(sujet)
               THEN Error("get_sujet_by_id", 404)
               ELSE Response("get_sujet_by_id", 200, [id |-> id], Row(sujet, id))
    /\ UNCHANGED <<rev, focus, seq>>
    /\ UNCHANGED tables

\* The routes of server.py in the order the decorators register them. A path is
\* the sequence of its segments; the segment "{id}" of a route stands for any
\* one segment (the router compiles it to [^/]+; that the handler declares
\* id: int plays no part in the match).
Param == "{id}"
Route(method, path, endpoint) == [method |-> method, path |-> path, endpoint |-> endpoint]
routes ==
    << Route("GET", <<"health">>, "health"),
       Route("POST", <<"save-conversation">>, "save_conversation"),
       Route("GET", <<"conversations">>, "list_conversations"),
       Route("GET", <<"conversations", Param>>, "get_conversation_by_id"),
       Route("GET", <<"conversations", Param, "export.txt">>, "export_conversation_txt"),
       Route("POST", <<"sujets">>, "create_sujet"),
       Route("GET", <<"sujets">>, "list_sujets"),
       Route("GET", <<"sujets", Param>>, "get_sujet_by_id"),
       Route("GET", <<"sujets", "tree">>, "get_sujet_tree"),
       Route("POST", <<"actions">>, "create_action"),
       Route("POST", <<"actions", "bulk">>, "create_actions_bulk"),
       Route("GET", <<"actions", "tree">>, "list_actions_tree_by_sujet") >>

\* Route.matches: the path matches the route's pattern, and the method is one
\* of the route's (a full match) or not (a partial one).
PathMatches(route, path) ==
    /\ Len(route.path) = Len(path)
    /\ \A k \in 1..Len(path) : route.path[k] = Param \/ route.path[k] = path[k]
FullMatch(route, method, path) == PathMatches(route, path) /\ route.method = method

\* Router.__call__: the first route, in registration order, that matches fully.
NoRoute == Route("", <<>>, "not_found")
Match(method, path) ==
    LET found == { k \in 1..Len(routes) : FullMatch(routes[k], method, path) }
    IN IF found = {} THEN NoRoute
       ELSE routes[CHOOSE k \in found : \A j \in found : k <= j]

\* int(): the integer a path segment spells, or NotInt.
IntTexts == <<"1", "2", "3", "4", "5">>
NotInt == -1
ParseInt(text) ==
    IF \E k \in 1..Len(IntTexts) : IntTexts[k] = text
    THEN CHOOSE k \in 1..Len(IntTexts) : IntTexts[k] = text
    ELSE NotInt

\* A GET request to server.py for a path under /sujets, with the query
\* parameter root_id: the router picks the route, the route's handler validates
\* its parameters (id: int = Path(..., ge=1): 422 for a segment that is no
\* integer) and runs.
http_get(path, root_id) ==
    /\ rev = "srv"
    /\ LET route == Match("GET", path)
       IN CASE route.endpoint = "get_sujet_by_id" ->
                 LET id == ParseInt(path[2])
                 IN IF id = NotInt \/ id < 1
                    THEN /\ resp' = Error("get_sujet_by_id", 422)
                         /\ UNCHANGED <<rev, focus, seq>>
                         /\ UNCHANGED tables
                    ELSE get_sujet_by_id(id)
            [] route.endpoint = "get_sujet_tree" -> get_sujet_tree(root_id)
            [] OTHER ->
                 /\ resp' = Error(route.endpoint, 404)
                 /\ UNCHANGED <<rev, focus, seq>>
                 /\ UNCHANGED tables

\* ------------------------------------------------------------------ db.py, /v2
\* pydantic validates the whole nested body before the handler runs: every
\* node's titre / task has min_length=1.
RECURSIVE ValidBody(_)
ValidBody(node) ==
    /\ MinLength1(node.label)
    /\ \A i \in 1..Len(Items(node.children)) : ValidBody(Items(node.children)[i])

RECURSIVE _insert_sujet_recursive(_, _, _)
RECURSIVE _insert_sujets(_, _, _)
_insert_sujet_recursive(tx, parent_id, node) ==
    LET titre == Strip(node.label) IN
    IF tx.raised THEN tx
    ELSE IF titre = <<>> THEN Raise(tx, 422)
    ELSE IF Raises(tx) THEN Raise(tx, 500)
    ELSE LET sid == NextId(tx, "sujet")
             tx1 == Insert(tx, "sujet", [id |-> sid, parent_sujet_id |-> parent_id,
                                         titre |-> titre])
             tx2 == _insert_sujets(tx1, sid, Items(node.children))
         IN [tx2 EXCEPT !.out = <<[id |-> sid, titre |-> titre, children |-> OrNone(tx2.out)]>>]
_insert_sujets(tx, parent_id, nodes) ==
    IF nodes = <<>> THEN [tx EXCEPT !.out = <<>>]
    ELSE LET t1 == _insert_sujet_recursive(tx, parent_id, Head(nodes))
             t2 == _insert_sujets(t1, parent_id, Tail(nodes))
         IN [t2 EXCEPT !.out = t1.out \o t2.out]

\* POST /v2/sujets/tree
create_sujet_tree_v2(root, failAt) ==
    /\ rev = "db2"
    /\ failAt <= Size(root) + 1
    /\ IF ~ValidBody(root)
       THEN /\ resp' = Error("create_sujet_tree_v2", 422)
            /\ UNCHANGED <<sujet, seq>>
       ELSE /\ seq["sujet"] + Size(root) <= MaxSujet
            /\ LET tx == _insert_sujet_recursive(Begin(failAt), NULL, root)
               IN /\ sujet' = EndTx(sujet, "sujet", tx)
                  /\ seq' = tx.seq
                  /\ resp' = IF Failed(tx) THEN TxErrorV2("create_sujet_tree_v2", tx)
                             ELSE Response("create_sujet_tree_v2", 200, root, tx.out[1])
    /\ UNCHANGED <<rev, focus, conversations, sous_sujet, action, sous_action, sous_sous_action>>

\* WITH RECURSIVE tree AS (... WHERE id = root UNION ALL ... JOIN tree t ON
\* s.parent_sujet_id = t.id): work is the rows the last iteration produced.
RECURSIVE RecursiveTree(_, _)
RecursiveTree(work, acc) ==
    IF work = {} THEN acc
    ELSE LET next == { r \in sujet : r.parent_sujet_id \in Ids(work) }
         IN RecursiveTree(next, acc \cup next)

\* get_sujet_tree_v2.attach: by_parent[node.id], each child with its own children.
RECURSIVE sujet_attach(_, _)
sujet_attach(rows, r) ==
    LET IsChild(c) == c.parent_sujet_id = r.id
        ch == SelectSeq(rows, IsChild)
    IN [id |-> r.id, titre |-> r.titre,
        children |-> OrNone([i \in 1..Len(ch) |-> sujet_attach(rows, ch[i])])]

sujet_tree_v2(root_id) ==
    LET head == Row(sujet, root_id)
        rows == OrderById(RecursiveTree({head}, {head}))
    IN sujet_attach(rows, head)

\* GET /v2/sujets/tree
get_sujet_tree_v2(root_id) ==
    /\ rev = "db2"
    /\ resp' = IF root_id \notin Ids(sujet)
               THEN Error("get_sujet_tree_v2", 404)
               ELSE Response("get_sujet_tree_v2", 200, [root_id |-> root_id],
                             sujet_tree_v2(root_id))
    /\ UNCHANGED <<rev, focus, seq>>
    /\ UNCHANGED tables

STATUS_MAP_APP_TO_DB ==
    [st \in Statuses |->
        CASE st = "nouvelle" -> "nouveau"
          [] st = "en_cours" -> "en_cours"
          [] st = "bloquee" -> "bloque"
          [] st = "terminee" -> "termine"
          [] st = "annulee" -> "termine"]

\* STATUS_MAP_APP_TO_DB.get(status, "nouveau")
StatusToDb(status) ==
    IF status \in DOMAIN STATUS_MAP_APP_TO_DB THEN STATUS_MAP_APP_TO_DB[status] ELSE "nouveau"

RECURSIVE _insert_action_recursive(_, _, _, _)
RECURSIVE _insert_actions(_, _, _, _)
_insert_action_recursive(tx, parent_action_id, sujet_id, node) ==
    IF tx.raised THEN tx
    ELSE IF Raises(tx) THEN Raise(tx, 500)
    ELSE LET aid == NextId(tx, "action")
             tx1 == Insert(tx, "action",
                           [id |-> aid, sujet_id |-> sujet_id,
                            parent_action_id |-> parent_action_id,
                            titre |-> Strip(node.label), statut |-> StatusToDb(StatusOf(node))])
             tx2 == _insert_actions(tx1, aid, sujet_id, Items(node.children))
         IN [tx2 EXCEPT !.out = <<[id |-> aid, task |-> node.label, status |-> StatusOf(node),
                                   children |-> OrNone(tx2.out)]>>]
_insert_actions(tx, parent_action_id, sujet_id, nodes) ==
    IF nodes = <<>> THEN [tx EXCEPT !.out = <<>>]
    ELSE LET t1 == _insert_action_recursive(tx, parent_action_id, sujet_id, Head(nodes))
             t2 == _insert_actions(t1, parent_action_id, sujet_id, Tail(nodes))
         IN [t2 EXCEPT !.out = t1.out \o t2.out]

\* POST /v2/actions/tree
create_action_tree_v2(sujet_id, root, failAt) ==
    /\ rev = "db2"
    /\ failAt <= Size(root) + 1
    /\ IF ~ValidBody(root) \/ ~ValidStatus(<<root>>)
       THEN /\ resp' = Error("create_action_tree_v2", 422)
            /\ UNCHANGED <<action, seq>>
       ELSE IF sujet_missing(sujet_id)
       THEN /\ resp' = Error("create_action_tree_v2", 404)
            /\ UNCHANGED <<action, seq>>
       ELSE /\ seq["action"] + Size(root) <= MaxAction
            /\ LET tx == _insert_action_recursive(Begin(failAt), NULL, sujet_id, root)
               IN /\ action' = EndTx(action, "action", tx)
                  /\ seq' = tx.seq
                  /\ resp' = IF Failed(tx) THEN TxErrorV2("create_action_tree_v2", tx)
                             ELSE Response("create_action_tree_v2", 200,
                                           [sujet_id |-> sujet_id, root |-> root], tx.out[1])
    /\ UNCHANGED <<rev, focus, conversations, sujet, sous_sujet, sous_action, sous_sous_action>>

\* get_actions_tree_v2.attach
RECURSIVE action_attach(_, _)
action_attach(rows, r) ==
    LET IsChild(c) == c.parent_action_id = r.id
        ch == SelectSeq(rows, IsChild)
    IN [id |-> r.id, task |-> r.titre, status |-> r.statut,
        children |-> OrNone([i \in 1..Len(ch) |-> action_attach(rows, ch[i])])]

\* by_parent.get(None, []): the rows of the sujet whose parent is NULL.
actions_forest_v2(rows) ==
    LET IsRoot(r) == r.parent_action_id = NULL
        roots == SelectSeq(rows, IsRoot)
    IN [i \in 1..Len(roots) |-> action_attach(rows, roots[i])]
actions_tree_v2(sujet_id) ==
    actions_forest_v2(OrderById({ r \in action : r.sujet_id = sujet_id }))

\* GET /v2/actions/tree
get_actions_tree_v2(sujet_id) ==
    /\ rev = "db2"
    /\ resp' = IF sujet_id \notin Ids(sujet)
               THEN Error("get_actions_tree_v2", 404)
               ELSE Response("get_actions_tree_v2", 200, [sujet_id |-> sujet_id],
                             actions_tree_v2(sujet_id))
    /\ UNCHANGED <<rev, focus, seq>>
    /\ UNCHANGED tables

\* The bodies a client sends to the /v2 tree endpoints: every tree, and every
\* tree with one label replaced by a blank, an empty or a padded text.
Padded == <<" ", "Z", " ">>
TreeBodiesBySize ==
    [n \in 1..MaxNodes |->
        { SetLabelT(t, k, v) : t \in TreesBySize[n], k \in 0..n, v \in {Blank, <<>>, Padded} }]
TreeBodies == UNION { TreeBodiesBySize[n] : n \in 1..MaxNodes }
\* A one-node body is sent whatever room is left: a body may be refused.
TreeBodiesUpTo(n) == UNION { TreeBodiesBySize[m] : m \in 1..Min(IF n < 1 THEN 1 ELSE n, MaxNodes) }

\* ------------------------------------------------------------------ db.py, legacy
\* POST /sujets (db.py): one sujet per (conversation, text); an existing one is
\* returned. fetchone() takes any one of the matching rows.
create_sujet_db(conversation_id, label) ==
    /\ rev = "db1"
    /\ LET req == [conversation_id |-> conversation_id, sujet |-> label]
           existing == { r \in sujet : r.conversation_id = conversation_id /\ r.sujet = label }
       IN IF ~MinLength1(label)
          THEN /\ resp' = Error("create_sujet_db", 422)
               /\ UNCHANGED <<sujet, seq>>
          ELSE IF conversation_id \notin Ids(conversations)
          THEN /\ resp' = Error("create_sujet_db", 404)
               /\ UNCHANGED <<sujet, seq>>
          ELSE IF existing # {}
          THEN /\ \E e \in existing : resp' = Response("create_sujet_db", 200, req, e)
               /\ UNCHANGED <<sujet, seq>>
          ELSE /\ seq["sujet"] < MaxSujet
               /\ LET r == [id |-> seq["sujet"] + 1, conversation_id |-> conversation_id,
                            sujet |-> label]
                  IN /\ sujet' = sujet \cup {r}
                     /\ seq' = [seq EXCEPT !["sujet"] = r.id]
                     /\ resp' = Response("create_sujet_db", 200, req, r)
    /\ UNCHANGED <<rev, focus, conversations, sous_sujet, action, sous_action, sous_sous_action>>

\* POST /sous-sujets, had it looked for a row with the same (sujet_id, titre).
create_sous_sujet_existing(sujet_id, titre) ==
    /\ rev = "db1"
    /\ LET req == [sujet_id |-> sujet_id, titre |-> titre]
       IN IF ~MinLength1(titre)
          THEN /\ resp' = Error("create_sous_sujet", 422)
               /\ UNCHANGED <<sous_sujet, seq>>
          ELSE IF sujet_id \notin Ids(sujet)
          THEN /\ resp' = Error("create_sous_sujet", 404)
               /\ UNCHANGED <<sous_sujet, seq>>
          ELSE IF \E e \in sous_sujet : e.sujet_id = sujet_id /\ e.titre = titre
          THEN /\ \E e \in sous_sujet :
                    /\ e.sujet_id = sujet_id /\ e.titre = titre
                    /\ resp' = Response("create_sous_sujet", 200, req, e)
               /\ UNCHANGED <<sous_sujet, seq>>
          ELSE /\ seq["sous_sujet"] < MaxSousSujet
               /\ LET r == [id |-> seq["sous_sujet"] + 1, sujet_id |-> sujet_id, titre |-> titre]
                  IN /\ sous_sujet' = sous_sujet \cup {r}
                     /\ seq' = [seq EXCEPT !["sous_sujet"] = r.id]
                     /\ resp' = Response("create_sous_sujet", 200, req, r)
    /\ UNCHANGED <<rev, focus, conversations, sujet, action, sous_action, sous_sous_action>>
\* POST /sous-sujets
create_sous_sujet(sujet_id, titre) ==
    /\ rev = "db1"
    /\ LET req == [sujet_id |-> sujet_id, titre |-> titre]
       IN IF ~MinLength1(titre)
          THEN /\ resp' = Error("create_sous_sujet", 422)
               /\ UNCHANGED <<sous_sujet, seq>>
          ELSE IF sujet_id \notin Ids(sujet)
          THEN /\ resp' = Error("create_sous_sujet", 404)
               /\ UNCHANGED <<sous_sujet, seq>>
          ELSE /\ seq["sous_sujet"] < MaxSousSujet
               /\ LET r == [id |-> seq["sous_sujet"] + 1, sujet_id |-> sujet_id, titre |-> titre]
                  IN /\ sous_sujet' = sous_sujet \cup {r}
                     /\ seq' = [seq EXCEPT !["sous_sujet"] = r.id]
                     /\ resp' = Response("create_sous_sujet", 200, req, r)
    /\ UNCHANGED <<rev, focus, conversations, sujet, action, sous_action, sous_sous_action>>

\* POST /actions/bulk (db.py): the three nested loops, innermost first.
RECURSIVE insert_sous_sous_actions(_, _, _)
insert_sous_sous_actions(tx, nodes, sous_action_id) ==
    IF nodes = <<>> THEN [tx EXCEPT !.out = <<>>]
    ELSE IF tx.raised THEN tx
    ELSE IF Raises(tx) THEN Raise(tx, 500)
    ELSE LET new_id == NextId(tx, "sous_sous_action")
             tx1 == Insert(tx, "sous_sous_action",
                           [id |-> new_id, sous_action_id |-> sous_action_id,
                            task |-> Head(nodes).label, status |-> StatusOf(Head(nodes))])
             tx2 == insert_sous_sous_actions(tx1, Tail(nodes), sous_action_id)
         IN [tx2 EXCEPT !.out = <<[sous_sous_action_id |-> new_id]>> \o tx2.out]

RECURSIVE insert_sous_actions(_, _, _)
insert_sous_actions(tx, nodes, action_id) ==
    IF nodes = <<>> THEN [tx EXCEPT !.out = <<>>]
    ELSE IF tx.raised THEN tx
    ELSE IF Raises(tx) THEN Raise(tx, 500)
    ELSE LET new_id == NextId(tx, "sous_action")
             tx1 == Insert(tx, "sous_action",
                           [id |-> new_id, action_id |-> action_id,
                            task |-> Head(nodes).label, status |-> StatusOf(Head(nodes))])
             tx2 == insert_sous_sous_actions(tx1, Items(Head(nodes).children), new_id)
             tx3 == insert_sous_actions(tx2, Tail(nodes), action_id)
         IN [tx3 EXCEPT !.out = <<[sous_action_id |-> new_id,
                                   sous_sous_actions |-> OrNone(tx2.out)]>> \o tx3.out]

RECURSIVE insert_actions(_, _, _)
insert_actions(tx, nodes, sous_sujet_id) ==
    IF nodes = <<>> THEN [tx EXCEPT !.out = <<>>]
    ELSE IF tx.raised THEN tx
    ELSE IF Raises(tx) THEN Raise(tx, 500)
    ELSE LET new_id == NextId(tx, "action")
             tx1 == Insert(tx, "action",
                           [id |-> new_id, id_sous_sujet |-> sous_sujet_id,
                            task |-> Head(nodes).label, status |-> StatusOf(Head(nodes))])
             tx2 == insert_sous_actions(tx1, Items(Head(nodes).children), new_id)
             tx3 == insert_actions(tx2, Tail(nodes), sous_sujet_id)
         IN [tx3 EXCEPT !.out = <<[action_id |-> new_id,
                                   sous_actions |-> OrNone(tx2.out)]>> \o tx3.out]

\* The bodies the legacy schema admits: action > sous_action > sous_sous_action.
LegacyBodies == { f \in Forests : ForestDepth(f) <= LegacyDepth }
LegacyBodiesBySize == [n \in 0..MaxNodes |-> { f \in ForestsBySize[n] : f \in LegacyBodies }]
LegacyBodiesUpTo(n) == UNION { LegacyBodiesBySize[m] : m \in 0..Min(n, MaxNodes) }

create_actions_bulk_db(sous_sujet_id, actions, failAt) ==
    /\ rev = "db1"
    /\ failAt <= ForestSize(actions) + 1
    /\ LET req == [sous_sujet_id |-> sous_sujet_id, actions |-> actions] IN
       IF ~ValidStatus(actions)
       THEN /\ resp' = Error("create_actions_bulk_db", 422)
            /\ UNCHANGED <<action, sous_action, sous_sous_action, seq>>
       ELSE IF sous_sujet_id \notin Ids(sous_sujet)
       THEN /\ resp' = Error("create_actions_bulk_db", 404)
            /\ UNCHANGED <<action, sous_action, sous_sous_action, seq>>
       ELSE /\ seq["action"] + seq["sous_action"] + seq["sous_sous_action"]
                 + ForestSize(actions) <= MaxAction
            /\ LET tx == insert_actions(Begin(failAt), actions, sous_sujet_id)
               IN /\ action' = EndTx(action, "action", tx)
                  /\ sous_action' = EndTx(sous_action, "sous_action", tx)
                  /\ sous_sous_action' = EndTx(sous_sous_action, "sous_sous_action", tx)
                  /\ seq' = tx.seq
                  /\ resp' = IF Failed(tx) THEN TxError("create_actions_bulk_db", tx)
                             ELSE Response("create_actions_bulk_db", 200, req,
                                           [sujet_id |-> Row(sous_sujet, sous_sujet_id).sujet_id,
                                            created |-> tx.out])
    /\ UNCHANGED <<rev, focus, conversations, sujet, sous_sujet>>

\* GET /tree/sujet: sous-sujets, their actions, sous-actions and sous-sous-actions,
\* each list in ascending id order.
\* The rows a legacy read works on: the four tables, or what its queries have
\* fetched of them so far.
Store ==
    [sous_sujet |-> sous_sujet, action |-> action, sous_action |-> sous_action,
     sous_sous_action |-> sous_sous_action]

sous_sous_action_items_in(T, sid) ==
    LET rows == OrderById({ r \in T.sous_sous_action : r.sous_action_id = sid })
    IN [i \in 1..Len(rows) |->
          [sous_sous_action_id |-> rows[i].id, task |-> rows[i].task, status |-> rows[i].status]]

sous_action_items_in(T, action_id) ==
    LET rows == OrderById({ r \in T.sous_action : r.action_id = action_id })
    IN [i \in 1..Len(rows) |->
          [sous_action_id |-> rows[i].id, task |-> rows[i].task, status |-> rows[i].status,
           sous_sous_actions |-> OrNone(sous_sous_action_items_in(T, rows[i].id))]]

action_items_in(T, ss_id) ==
    LET rows == OrderById({ r \in T.action : r.id_sous_sujet = ss_id })
    IN [i \in 1..Len(rows) |->
          [action_id |-> rows[i].id, task |-> rows[i].task, status |-> rows[i].status,
           sous_actions |-> OrNone(sous_action_items_in(T, rows[i].id))]]

full_tree_in(T, sujet_id) ==
    LET ss_rows == OrderById({ r \in T.sous_sujet : r.sujet_id = sujet_id })
    IN [i \in 1..Len(ss_rows) |->
          [sous_sujet_id |-> ss_rows[i].id, titre |-> ss_rows[i].titre,
           actions |-> OrNone(action_items_in(T, ss_rows[i].id))]]

sous_sous_action_items(sid) == sous_sous_action_items_in(Store, sid)
sous_action_items(action_id) == sous_action_items_in(Store, action_id)
action_items(ss_id) == action_items_in(Store, ss_id)

\* GET /actions (legacy): for ss_id in ss_ids, the actions of each sous-sujet are
\* appended to one list.
RECURSIVE actions_of_last_first(_)
actions_of_last_first(ss_rows) ==
    IF ss_rows = <<>> THEN <<>>
    ELSE actions_of_last_first(Tail(ss_rows)) \o action_items(Head(ss_rows).id)
RECURSIVE actions_of(_)
actions_of(ss_rows) ==
    IF ss_rows = <<>> THEN <<>>
    ELSE action_items(Head(ss_rows).id) \o actions_of(Tail(ss_rows))

list_actions_by_sujet(sujet_id) ==
    /\ rev = "db1"
    /\ resp' = IF sujet_id \notin Ids(sujet)
               THEN Error("list_actions_by_sujet", 404)
               ELSE Response("list_actions_by_sujet", 200, [sujet_id |-> sujet_id],
                             [sujet_id |-> sujet_id,
                              actions |-> actions_of(OrderById({ r \in sous_sujet :
                                                                  r.sujet_id = sujet_id }))])
    /\ UNCHANGED <<rev, focus, seq>>
    /\ UNCHANGED tables

full_tree(sujet_id) == full_tree_in(Store, sujet_id)

get_full_tree_by_sujet(sujet_id) ==
    /\ rev = "db1"
    /\ resp' = IF sujet_id \notin Ids(sujet)
               THEN Error("get_full_tree_by_sujet", 404)
               ELSE Response("get_full_tree_by_sujet", 200, [sujet_id |-> sujet_id],
                             [sujet_id |-> sujet_id, sous_sujets |-> full_tree(sujet_id)])
    /\ UNCHANGED <<rev, focus, seq>>
    /\ UNCHANGED tables

\* ------------------------------------------------------------------ next-state
\* The requests of a client. One working on the sujet hierarchy sends every sujet
\* request; one working on the action hierarchy creates plain nodes above the
\* actions, as their scopes, and sends every action request. A write to a scope
\* that does not exist is sent with a one-node body and no store failure, and a
\* write to one that exists with the bodies the ids left (Room) suffice for.
\* Beside concurrent clients, whole requests create the conversation and the
\* sujet the clients work on.
OnConvs == focus = "conversations"
OnList == focus = "listing"
OnSujets == focus = "sujets"
OnActions == focus = "actions"
OnClients == focus = "clients"
OnReaders == focus = "readers"
OnRequests == focus = "requests"
ConvArgs == IF OnSujets \/ OnConvs \/ OnList THEN 1..MaxConv ELSE {1}

\* The bodies of POST /save-conversation: the texts and the timestamp vary on a
\* body with no image, the image on one body. ImageOf10MB is the base64 text of
\* 10 * 1024 * 1024 bytes, ImageOver10MB that of one byte more.
Conversation(user_name, conversation, date_conversation, image_base64) ==
    [user_name |-> user_name, conversation |-> conversation,
     date_conversation |-> date_conversation, image_base64 |-> image_base64,
     image_mime |-> NoText, image_filename |-> NoText]
WithFile(body, image_mime, image_filename) ==
    [body EXCEPT !.image_mime = image_mime, !.image_filename = image_filename]
Mimes == {NoText, Text(<<>>), Text(<<"p">>)}
Filenames == {NoText, Text(<<"f">>)}
UserNames == {<<"m">>, <<" ", "m", " ">>, Blank, <<>>}
Texts == {<<"Q">>, <<" ", "Q">>, <<>>}
Dates == {NULL, 1}
Clock == {2, 3}
ImageOf10MB == Base64(4 * ((MaxImageBytes - 1) \div 3) + 2, 2, TRUE)
ImageOver10MB == Base64(4 * ((MaxImageBytes - 1) \div 3) + 3, 1, TRUE)
Images ==
    {Base64(0, 0, TRUE), Base64(2, 2, TRUE), Base64(4, 0, FALSE), Base64(5, 0, TRUE),
     Base64(3, 0, TRUE), Base64(4, 1, TRUE), ImageOf10MB, ImageOver10MB}
ListNames == {<<"m">>, <<"M">>}
DefaultConversation == Conversation(<<"m">>, <<"Q">>, NULL, NoImage)
ConversationBodies ==
    IF OnConvs
    THEN { Conversation(u, t, d, NoImage) : u \in UserNames, t \in Texts, d \in Dates }
         \cup { Conversation(<<"m">>, <<"Q">>, 1, i) : i \in Images }
         \cup (IF seq["conversations"] = 0
               THEN { WithFile(Conversation(<<"m">>, <<"Q">>, 1, i), m, f) :
                        i \in {NoImage, Base64(2, 2, TRUE)}, m \in Mimes, f \in Filenames }
               ELSE {})
    ELSE IF OnList
    THEN { Conversation(u, <<"Q">>, d, NoImage) : u \in ListNames, d \in Dates }
    ELSE {DefaultConversation}
SujetLabelArgs == IF OnSujets THEN SujetLabels ELSE {<<"x">>}
SujetParentArgs == IF OnSujets \/ OnRequests THEN 0..MaxSujet ELSE {NULL}
SujetIdArgs == IF OnClients \/ OnReaders THEN {1} ELSE 1..MaxSujet
SujetTreeArgs == IF OnSujets THEN TreeBodies ELSE IF OnRequests THEN Trees ELSE OneTree
ActionRoom == MaxAction - seq["action"]
\* server.py's ActionTreeIn declares `task: str`: a body may carry an empty task.
\* The bodies that give a status: one of the Literal, and one outside it. The
\* bodies that store an empty task or a status of their own are the first sent.
FirstAction == seq["action"] = 0
\* Where the recursive insert and the tree reads run statement by statement, the
\* conversation and the sujets are there before the first client writes, and the
\* writer works on the first sujet.
SetUp == FirstAction /\ \A c \in Clients : sessions[c].pc = "idle"
WriteScopes == IF OnRequests THEN {1} ELSE SujetIdArgs
EmptyTaskBodies == IF FirstAction THEN { SetLabelF(f, 1, <<>>) : f \in OneNode } ELSE {}
StatusArgs == {"annulee", "autre"}
StatusArgsNow == IF FirstAction THEN StatusArgs ELSE StatusArgs \ Statuses
StatusBodies == { <<WithStatus(t, st)>> : t \in OneTree, st \in StatusArgsNow }
StatusTrees == { WithStatus(t, st) : t \in OneTree, st \in StatusArgsNow }
LegacyRoom == MaxAction - (seq["action"] + seq["sous_action"] + seq["sous_sous_action"])

\* ------------------------------------------------------------------ concurrent clients
\* Two clients whose requests run statement by statement, each on its own
\* connection: a SELECT sees the committed rows, an INSERT takes the next value
\* of the sequence at once and its row stays with the client until the commit.
ClientSeq == <<"c1", "c2">>

\* Where reads run beside writes, one client writes and the other reads.
Writers == {"c1"}
Readers == {"c2"}

\* The nodes of a payload in the order insert_node reaches them, each with the
\* place in that order of its payload parent (0 for a root).
RECURSIVE FlatF(_, _, _)
RECURSIVE FlatT(_, _, _)
FlatF(f, up, first) ==
    IF f = <<>> THEN <<>>
    ELSE FlatT(Head(f), up, first) \o FlatF(Tail(f), up, first + Size(Head(f)))
FlatT(t, up, first) ==
    <<[label |-> t.label, up |-> up]>> \o FlatF(Items(t.children), first, first + 1)
PreOrder(f) == FlatF(f, 0, 1)

ReadOps == {"list_actions_tree_by_sujet", "get_full_tree_by_sujet"}
TreeReads == {"get_sujet_tree", "get_sujet_tree_v2", "get_actions_tree_v2"}
SessionTable(s) ==
    IF s.op = "create_sujet_db" THEN "sujet"
    ELSE IF s.op = "create_actions_bulk_db" THEN "legacy"
    ELSE IF s.op \in ReadOps \cup TreeReads THEN "none"
    ELSE "action"

\* The place of the k-th node of a payload in the legacy hierarchy, and its table.
RECURSIVE NodeDepth(_, _)
NodeDepth(todo, k) == IF todo[k].up = 0 THEN 1 ELSE 1 + NodeDepth(todo, todo[k].up)
LegacyTables == <<"action", "sous_action", "sous_sous_action">>
NodeTable(s, k) ==
    IF s.op = "create_actions_bulk_db" THEN LegacyTables[NodeDepth(s.todo, k)]
    ELSE SessionTable(s)

\* The ids the requests in progress will still take from a table's sequence.
Reserved(table) ==
    SeqSum([i \in 1..Len(ClientSeq) |->
              IF SessionTable(sessions[ClientSeq[i]]) = table
              THEN Len(sessions[ClientSeq[i]].todo) - Len(sessions[ClientSeq[i]].ids)
              ELSE 0])

Start(c, op, pc, scope, parent, todo) ==
    /\ sessions[c].pc = "idle"
    /\ OnRequests => \A d \in Clients : sessions[d].pc = "idle"
    /\ sessions' = [sessions EXCEPT ![c] =
                      [Idle EXCEPT !.pc = pc, !.op = op, !.scope = scope, !.parent = parent,
                                   !.todo = todo]]
    /\ UNCHANGED <<rev, focus, seq, resp>>
    /\ UNCHANGED tables

Goto(c, pc) == sessions' = [sessions EXCEPT ![c].pc = pc]

\* The request ends without a commit: cur.close(); conn.close(), the response.
Return(c) == sessions' = [sessions EXCEPT ![c] = Idle]

\* POST /sujets (db.py), POST /actions and POST /actions/bulk (server.py) arrive.
client_post_sujets_db ==
    /\ rev = "db1" /\ OnClients
    /\ seq["sujet"] + Reserved("sujet") < MaxSujet
    /\ \E c \in Clients, conv \in ConvArgs :
         Start(c, "create_sujet_db", "select_conversation", conv, NULL,
               <<[label |-> <<"x">>, up |-> 0]>>)

client_post_actions ==
    /\ rev = "srv" /\ OnClients
    /\ seq["action"] + Reserved("action") < MaxAction
    /\ \E c \in Clients, s \in SujetIdArgs, p \in 0..MaxAction :
         Start(c, "create_action", "select_sujet", s, p, <<[label |-> TaskName(1), up |-> 0]>>)

client_post_actions_bulk ==
    /\ rev = "srv" /\ (OnClients \/ OnReaders \/ OnRequests)
    /\ OnRequests => FirstAction
    /\ \E c \in IF OnReaders \/ OnRequests THEN Writers ELSE Clients, s \in WriteScopes :
         \E f \in ForestsUpTo(MaxAction - (seq["action"] + Reserved("action"))) :
           Start(c, "create_actions_bulk", "select_sujet", s, NULL, PreOrder(f))

\* POST /v2/actions/tree (db.py) arrives.
client_post_v2_actions_tree ==
    /\ rev = "db2" /\ (OnClients \/ OnRequests)
    /\ OnRequests => FirstAction
    /\ \E c \in IF OnRequests THEN Writers ELSE Clients, s \in WriteScopes :
         \E t \in TreesUpTo(MaxAction - (seq["action"] + Reserved("action"))) :
           Start(c, "create_action_tree_v2", "select_sujet", s, NULL, PreOrder(<<t>>))

\* POST /actions/bulk (db.py) arrives.
client_post_actions_bulk_db ==
    /\ rev = "db1" /\ OnReaders
    /\ LegacyRoom - Reserved("legacy") >= 1
    /\ \E c \in Writers, ss \in 1..MaxSousSujet :
         \E f \in LegacyBodiesUpTo(LegacyRoom - Reserved("legacy")) :
           Start(c, "create_actions_bulk_db", "select_sous_sujet", ss, NULL, PreOrder(f))

\* GET /actions/tree (server.py) and GET /tree/sujet (db.py) arrive.
client_get_actions_tree ==
    /\ rev = "srv" /\ OnReaders
    /\ \E c \in Readers, s \in SujetIdArgs :
         Start(c, "list_actions_tree_by_sujet", "read_sujet", s, NULL, <<>>)

client_get_tree_sujet ==
    /\ rev = "db1" /\ OnReaders
    /\ \E c \in Readers, s \in SujetIdArgs :
         Start(c, "get_full_tree_by_sujet", "read_sujet", s, NULL, <<>>)

\* SELECT sujet_id FROM sous_sujet WHERE id=%s (db.py create_actions_bulk)
client_select_sous_sujet ==
    /\ \E c \in Clients :
         /\ sessions[c].pc = "select_sous_sujet"
         /\ IF sessions[c].scope \notin Ids(sous_sujet)
            THEN Return(c)
            ELSE Goto(c, IF sessions[c].todo = <<>> THEN "commit" ELSE "insert")
    /\ UNCHANGED <<rev, focus, seq, resp>>
    /\ UNCHANGED tables

\* SELECT 1 FROM conversations WHERE id=%s (db.py create_sujet)
client_select_conversation ==
    /\ \E c \in Clients :
         /\ sessions[c].pc = "select_conversation"
         /\ IF sessions[c].scope \notin Ids(conversations)
            THEN Return(c)
            ELSE Goto(c, "select_existing")
    /\ UNCHANGED <<rev, focus, seq, resp>>
    /\ UNCHANGED tables

\* SELECT id FROM sujet WHERE conversation_id=%s AND sujet=%s (db.py create_sujet)
client_select_existing ==
    /\ \E c \in Clients :
         /\ sessions[c].pc = "select_existing"
         /\ IF \E r \in sujet : /\ r.conversation_id = sessions[c].scope
                                /\ r.sujet = sessions[c].todo[1].label
            THEN Return(c)
            ELSE Goto(c, "insert")
    /\ UNCHANGED <<rev, focus, seq, resp>>
    /\ UNCHANGED tables

\* SELECT 1 FROM sujet WHERE id=%s (server.py create_action, create_actions_bulk)
client_select_sujet ==
    /\ \E c \in Clients :
         /\ sessions[c].pc = "select_sujet"
         /\ IF sessions[c].scope \notin Ids(sujet)
            THEN Return(c)
            ELSE Goto(c, IF sessions[c].parent # NULL THEN "select_parent"
                         ELSE IF sessions[c].todo = <<>> THEN "commit" ELSE "insert")
    /\ UNCHANGED <<rev, focus, seq, resp>>
    /\ UNCHANGED tables

\* SELECT sujet_id FROM action WHERE id=%s (server.py create_action)
client_select_parent ==
    /\ \E c \in Clients :
         /\ sessions[c].pc = "select_parent"
         /\ IF sessions[c].parent \notin Ids(action)
            THEN Return(c)
            ELSE IF Row(action, sessions[c].parent).sujet_id # sessions[c].scope
            THEN Return(c)
            ELSE Goto(c, "insert")
    /\ UNCHANGED <<rev, focus, seq, resp>>
    /\ UNCHANGED tables

\* The row the k-th INSERT of a request in progress stores under id, had a child
\* taken the id before its own as its parent.
SessionRowAfterLast(s, k, id) ==
    IF s.op = "create_sujet_db"
    THEN [id |-> id, conversation_id |-> s.scope, sujet |-> s.todo[k].label]
    ELSE IF s.op = "create_actions_bulk_db"
    THEN LET d == NodeDepth(s.todo, k)
             row == [id |-> id, task |-> s.todo[k].label, status |-> "nouvelle"]
         IN IF d = 1 THEN [id |-> id, id_sous_sujet |-> s.scope, task |-> row.task,
                           status |-> row.status]
            ELSE IF d = 2 THEN [id |-> id, action_id |-> s.ids[s.todo[k].up],
                                task |-> row.task, status |-> row.status]
            ELSE [id |-> id, sous_action_id |-> s.ids[s.todo[k].up], task |-> row.task,
                  status |-> row.status]
    ELSE IF s.op = "create_action_tree_v2"
    THEN [id |-> id, sujet_id |-> s.scope,
          parent_action_id |-> IF s.todo[k].up = 0 THEN s.parent ELSE id - 1,
          titre |-> Strip(s.todo[k].label), statut |-> StatusToDb("nouvelle")]
    ELSE ActionRow(id, s.scope, s.todo[k].label, "nouvelle",
                   IF s.todo[k].up = 0 THEN s.parent ELSE id - 1)
\* The row the k-th INSERT of a request in progress stores under id.
SessionRow(s, k, id) ==
    IF s.op = "create_sujet_db"
    THEN [id |-> id, conversation_id |-> s.scope, sujet |-> s.todo[k].label]
    ELSE IF s.op = "create_actions_bulk_db"
    THEN LET d == NodeDepth(s.todo, k)
             row == [id |-> id, task |-> s.todo[k].label, status |-> "nouvelle"]
         IN IF d = 1 THEN [id |-> id, id_sous_sujet |-> s.scope, task |-> row.task,
                           status |-> row.status]
            ELSE IF d = 2 THEN [id |-> id, action_id |-> s.ids[s.todo[k].up],
                                task |-> row.task, status |-> row.status]
            ELSE [id |-> id, sous_action_id |-> s.ids[s.todo[k].up], task |-> row.task,
                  status |-> row.status]
    ELSE IF s.op = "create_action_tree_v2"
    THEN [id |-> id, sujet_id |-> s.scope,
          parent_action_id |-> IF s.todo[k].up = 0 THEN s.parent ELSE s.ids[s.todo[k].up],
          titre |-> Strip(s.todo[k].label), statut |-> StatusToDb("nouvelle")]
    ELSE ActionRow(id, s.scope, s.todo[k].label, "nouvelle",
                   IF s.todo[k].up = 0 THEN s.parent ELSE s.ids[s.todo[k].up])

\* INSERT ... RETURNING id
client_insert ==
    /\ \E c \in Clients :
         LET s == sessions[c]
             k == Len(s.ids) + 1
             table == NodeTable(s, k)
             id == seq[table] + 1
         IN /\ s.pc = "insert"
            /\ seq' = [seq EXCEPT ![table] = id]
            /\ sessions' = [sessions EXCEPT
                              ![c].ids = Append(@, id),
                              ![c].own = @ \cup {<<table, SessionRow(s, k, id)>>},
                              ![c].pc = IF k = Len(s.todo) THEN "commit" ELSE "insert"]
    /\ UNCHANGED <<rev, focus, resp>>
    /\ UNCHANGED tables

\* An INSERT or the commit raises: conn.rollback() where the handler has one, the
\* connection dropped with its transaction where it has none; 500.
client_raise ==
    /\ \E c \in Clients :
         /\ sessions[c].pc \in {"insert", "commit"}
         /\ Return(c)
    /\ UNCHANGED <<rev, focus, seq, resp>>
    /\ UNCHANGED tables

\* conn.commit()
client_commit ==
    /\ \E c \in Clients :
         /\ sessions[c].pc = "commit"
         /\ sujet' = sujet \cup { p[2] : p \in { q \in sessions[c].own : q[1] = "sujet" } }
         /\ action' = action \cup { p[2] : p \in { q \in sessions[c].own : q[1] = "action" } }
         /\ sous_action' =
              sous_action \cup { p[2] : p \in { q \in sessions[c].own : q[1] = "sous_action" } }
         /\ sous_sous_action' =
              sous_sous_action
                \cup { p[2] : p \in { q \in sessions[c].own : q[1] = "sous_sous_action" } }
         /\ Return(c)
    /\ UNCHANGED <<rev, focus, seq, resp, conversations, sous_sujet>>

\* A read in progress. Each of its SELECTs is a statement of its own on a
\* connection of its own: it sees the rows committed when it runs. A query is
\* the table it reads and the key it selects by.
Select(table, key) == [table |-> table, key |-> key]
Fetched(own, table) == { p[2] : p \in { q \in own : q[1] = table } }
FetchUncommitted(q) ==
    LET Seen(table) == UNION { Fetched(sessions[c].own, table) : c \in Clients } IN
    CASE q.table = "sous_sujet" -> { r \in sous_sujet : r.sujet_id = q.key }
      [] q.table = "action" ->
           IF rev = "srv" THEN { r \in action \cup Seen("action") : r.sujet_id = q.key }
           ELSE { r \in action \cup Seen("action") : r.id_sous_sujet = q.key }
      [] q.table = "sous_action" ->
           { r \in sous_action \cup Seen("sous_action") : r.action_id = q.key }
      [] q.table = "sous_sous_action" ->
           { r \in sous_sous_action \cup Seen("sous_sous_action") : r.sous_action_id = q.key }
Fetch(q) ==
    CASE q.table = "sous_sujet" -> { r \in sous_sujet : r.sujet_id = q.key }
      [] q.table = "action" ->
           IF rev = "srv" THEN { r \in action : r.sujet_id = q.key }
           ELSE { r \in action : r.id_sous_sujet = q.key }
      [] q.table = "sous_action" -> { r \in sous_action : r.action_id = q.key }
      [] q.table = "sous_sous_action" ->
           { r \in sous_sous_action : r.sous_action_id = q.key }

\* The queries the handler runs for the rows one query returned, in the order it
\* runs them: get_full_tree_by_sujet selects, for each row in id order, the rows
\* of the level below before it goes on to the next row.
ChildTable(table) ==
    CASE table = "sous_sujet" -> "action"
      [] table = "action" -> "sous_action"
      [] table = "sous_action" -> "sous_sous_action"
      [] OTHER -> "none"
Below(q, rows) ==
    IF rev = "srv" \/ ChildTable(q.table) = "none" THEN <<>>
    ELSE [i \in 1..Len(rows) |-> Select(ChildTable(q.table), rows[i].id)]

\* The response built from the rows fetched.
ReadBody(op, sujet_id, own) ==
    IF op = "list_actions_tree_by_sujet"
    THEN actions_forest(OrderById(Fetched(own, "action")))
    ELSE [sujet_id |-> sujet_id,
          sous_sujets |->
            full_tree_in([t \in {"sous_sujet", "action", "sous_action", "sous_sous_action"}
                            |-> Fetched(own, t)], sujet_id)]

\* SELECT 1 FROM sujet WHERE id=%s of a read: 404, or on to the first query.
client_read_sujet ==
    /\ \E c \in Clients :
         LET s == sessions[c] IN
         /\ s.pc = "read_sujet"
         /\ IF s.scope \notin Ids(sujet)
            THEN /\ Return(c)
                 /\ resp' = Error(s.op, 404)
            ELSE /\ sessions' = [sessions EXCEPT
                                   ![c].pc = "read",
                                   ![c].todo =
                                      <<Select(IF rev = "srv" THEN "action" ELSE "sous_sujet",
                                               s.scope)>>]
                 /\ UNCHANGED resp
    /\ UNCHANGED <<rev, focus, seq>>
    /\ UNCHANGED tables

\* The next SELECT of a read; after the last one, cur.close(); conn.close() and
\* the response.
client_read ==
    /\ \E c \in Clients :
         LET s == sessions[c]
             q == Head(s.todo)
             rows == OrderById(Fetch(q))
             own == s.own \cup { <<q.table, rows[i]>> : i \in 1..Len(rows) }
             todo == Below(q, rows) \o Tail(s.todo)
         IN /\ s.pc = "read"
            /\ IF todo = <<>>
               THEN /\ Return(c)
                    /\ resp' = Response(s.op, 200, [sujet_id |-> s.scope],
                                        ReadBody(s.op, s.scope, own))
               ELSE /\ sessions' = [sessions EXCEPT ![c].own = own, ![c].todo = todo]
                    /\ UNCHANGED resp
    /\ UNCHANGED <<rev, focus, seq>>
    /\ UNCHANGED tables

\* A tree read in progress: GET /sujets/tree (server.py), GET /v2/sujets/tree and
\* GET /v2/actions/tree (db.py). Its statements run one by one, then the handler
\* descends from the root over the rows it loaded: todo is the calls of to_model
\* or attach still to make (the next one first), ids the nodes the calls made so
\* far were for, own the rows loaded. The sujet trees, which hold no action, are
\* read before the actions are written.
client_get_sujets_tree ==
    /\ rev = "srv" /\ OnRequests /\ FirstAction
    /\ \E c \in Readers, r \in SujetIdArgs :
         Start(c, "get_sujet_tree", "select_root", r, NULL, <<>>)

client_get_v2_sujets_tree ==
    /\ rev = "db2" /\ OnRequests /\ FirstAction
    /\ \E c \in Readers, r \in SujetIdArgs :
         Start(c, "get_sujet_tree_v2", "select_root", r, NULL, <<>>)

client_get_v2_actions_tree ==
    /\ rev = "db2" /\ OnRequests
    /\ \E c \in Readers, s \in SujetIdArgs :
         Start(c, "get_actions_tree_v2", "select_root", s, NULL, <<>>)

\* SELECT ... FROM sujet WHERE id=%s of a tree read: 404, or on to the rows.
client_select_root ==
    /\ \E c \in Clients :
         LET s == sessions[c] IN
         /\ s.pc = "select_root"
         /\ IF s.scope \notin Ids(sujet)
            THEN /\ Return(c)
                 /\ resp' = Error(s.op, 404)
            ELSE /\ Goto(c, "load")
                 /\ UNCHANGED resp
    /\ UNCHANGED <<rev, focus, seq>>
    /\ UNCHANGED tables

\* The table of own that holds the rows a tree read descends over.
LoadedTable(op) ==
    CASE op = "get_sujet_tree" -> "sujet"
      [] op = "get_sujet_tree_v2" -> "tree"
      [] OTHER -> "action"

\* The response built from the rows loaded (in id order).
TreeRequest(op, id) ==
    IF op = "get_actions_tree_v2" THEN [sujet_id |-> id] ELSE [root_id |-> id]
TreeBody(op, root_id, rows) ==
    LET root == rows[CHOOSE i \in 1..Len(rows) : rows[i].id = root_id] IN
    CASE op = "get_sujet_tree" -> sujet_to_model(rows, root)
      [] op = "get_sujet_tree_v2" -> sujet_attach(rows, root)
      [] OTHER -> actions_forest_v2(rows)

\* The statement that loads the rows. server.py get_sujet_tree: the sujets of the
\* root's conversation, then to_model(nodes[root_id]). db.py get_actions_tree_v2:
\* the actions of the sujet, then attach(root) for each row of by_parent[None],
\* none at all if there is none. db.py get_sujet_tree_v2: the statement is the
\* recursive query, which works on the rows committed when it starts; its first
\* term selects the root.
client_load ==
    /\ \E c \in Clients :
         LET s == sessions[c]
             conv == Row(sujet, s.scope).conversation_id
             rows == IF s.op = "get_sujet_tree"
                     THEN { r \in sujet : r.conversation_id = conv }
                     ELSE { r \in action : r.sujet_id = s.scope }
             ordered == OrderById(rows)
             IsRoot(r) == r.parent_action_id = NULL
             roots == SelectSeq(ordered, IsRoot)
             todo == IF s.op = "get_sujet_tree" THEN <<s.scope>>
                     ELSE [i \in 1..Len(roots) |-> roots[i].id]
         IN /\ s.pc = "load"
            /\ IF s.op = "get_sujet_tree_v2"
               THEN /\ sessions' = [sessions EXCEPT
                                      ![c].pc = "cte",
                                      ![c].own = { <<"sujet", r>> : r \in sujet }
                                                   \cup {<<"tree", Row(sujet, s.scope)>>},
                                      ![c].todo = <<s.scope>>]
                    /\ UNCHANGED resp
               ELSE IF todo = <<>>
               THEN /\ Return(c)
                    /\ resp' = Response(s.op, 200, TreeRequest(s.op, s.scope), <<>>)
               ELSE /\ sessions' = [sessions EXCEPT
                                      ![c].pc = "descend",
                                      ![c].own = { <<LoadedTable(s.op), r>> : r \in rows },
                                      ![c].todo = todo]
                    /\ UNCHANGED resp
    /\ UNCHANGED <<rev, focus, seq>>
    /\ UNCHANGED tables

\* One iteration of the recursive term of WITH RECURSIVE tree (db.py
\* get_sujet_tree_v2): todo is the working table, the rows the last iteration
\* produced; the rows that have one of them as parent join the result and become
\* the working table. The query ends when an iteration produces no row; then
\* root = mk(head); attach(root).
client_cte ==
    /\ \E c \in Clients :
         LET s == sessions[c]
             work == { s.todo[i] : i \in 1..Len(s.todo) }
             next == OrderById({ r \in Fetched(s.own, "sujet") : r.parent_sujet_id \in work })
         IN /\ s.pc = "cte"
            /\ sessions' =
                 IF next = <<>>
                 THEN [sessions EXCEPT
                         ![c].pc = "descend",
                         ![c].own = { <<"tree", r>> : r \in Fetched(s.own, "tree") },
                         ![c].todo = <<s.scope>>]
                 ELSE [sessions EXCEPT
                         ![c].own = @ \cup { <<"tree", next[i]>> : i \in 1..Len(next) },
                         ![c].todo = [i \in 1..Len(next) |-> next[i].id]]
    /\ UNCHANGED <<rev, focus, seq, resp>>
    /\ UNCHANGED tables

\* The nodes a call of to_model or attach for node id calls itself for:
\* n["children"] (server.py), by_parent.get(node.id, []) (db.py), in the order
\* of the rows. The first definition keys the rows by their own id.
children_by_id(op, rows, id) ==
    LET IsChild(r) == r.id = id
        ch == SelectSeq(rows, IsChild)
    IN [i \in 1..Len(ch) |-> ch[i].id]
children_of(op, rows, id) ==
    LET IsChild(r) ==
            IF op = "get_sujet_tree" THEN r.parent_id # NULL /\ r.parent_id = id
            ELSE IF op = "get_sujet_tree_v2" THEN r.parent_sujet_id = id
            ELSE r.parent_action_id = id
        ch == SelectSeq(rows, IsChild)
    IN [i \in 1..Len(ch) |-> ch[i].id]

\* One call of to_model or attach: the calls for the children of its node come
\* before the calls still to make. After the last call, the response.
client_descend ==
    /\ \E c \in Clients :
         /\ sessions[c].pc = "descend"
         /\ \E rows \in {OrderById(Fetched(sessions[c].own, LoadedTable(sessions[c].op)))} :
              LET s == sessions[c]
                  node == Head(s.todo)
                  todo == children_of(s.op, rows, node) \o Tail(s.todo)
              IN IF todo = <<>>
                 THEN /\ Return(c)
                      /\ \E body \in {TreeBody(s.op, s.scope, rows)} :
                           resp' = Response(s.op, 200, TreeRequest(s.op, s.scope), body)
                 ELSE /\ sessions' = [sessions EXCEPT ![c].ids = Append(@, node),
                                                      ![c].todo = todo]
                      /\ UNCHANGED resp
    /\ UNCHANGED <<rev, focus, seq>>
    /\ UNCHANGED tables

\* The queries of GET /conversations: the filters vary on the default page, the
\* page on the query with no filter and on one with a date.
DateArgs == {NULL, 1, 2, BadDate}
NameArgs == {<<>>, <<"M">>}
WildcardArgs == {<<"_">>, <<"x">>}
Pages == ({1, 2} \X {0, 1, 2}) \cup {<<0, 0>>, <<MaxLimit + 1, 0>>, <<1, -1>>}
Query(date, user_name, limit, offset) ==
    [date |-> date, user_name |-> user_name, limit |-> limit, offset |-> offset]
Queries ==
    { Query(d, u, DefaultLimit, 0) : d \in DateArgs, u \in NameArgs }
    \cup { Query(NULL, u, DefaultLimit, 0) : u \in WildcardArgs }
    \cup { Query(NULL, <<>>, p[1], p[2]) : p \in Pages }
    \cup { Query(2, <<>>, 1, o) : o \in {0, 1} }

\* ------------------------------------------------------------------ requests
post_save_conversation ==
    /\ seq["conversations"] < Cardinality(ConvArgs)
    /\ OnRequests => SetUp
    /\ \E body \in ConversationBodies :
         \E now \in IF (OnConvs \/ OnList) /\ body.date_conversation = NULL
                    THEN Clock ELSE {2} :
           \E fails \in IF OnConvs THEN BOOLEAN ELSE {FALSE} :
             save_conversation(body, now, fails)
    /\ UNCHANGED sessions

get_conversations_id ==
    /\ OnConvs /\ \E id \in ConvArgs : get_conversation_by_id(id)
    /\ UNCHANGED sessions

get_conversations_id_image ==
    /\ OnConvs /\ rev = "db1" /\ \E id \in ConvArgs : download_conversation_image(id)
    /\ UNCHANGED sessions

get_conversations ==
    /\ OnList
    /\ \E q \in Queries : list_conversations(q.date, q.user_name, q.limit, q.offset)
    /\ UNCHANGED sessions

post_sujets ==
    /\ rev = "srv" /\ ~OnConvs /\ ~OnList
    /\ (OnClients \/ OnReaders) => seq["sujet"] < Cardinality(SujetIdArgs)
    /\ OnRequests => SetUp
    /\ \E c \in ConvArgs, l \in SujetLabelArgs, p \in SujetParentArgs : create_sujet(c, l, p)
    /\ UNCHANGED sessions

\* GET /sujets/1, ..., GET /sujets/tree?root_id=..., GET /sujets/tree/1
SujetPaths ==
    { <<"sujets", IntTexts[i]>> : i \in SujetIdArgs }
    \cup { <<"sujets", "tree">>, <<"sujets", "tree", "1">> }
http_get_sujets ==
    /\ rev = "srv" /\ OnSujets
    /\ \E path \in SujetPaths, r \in SujetIdArgs : http_get(path, r)
    /\ UNCHANGED sessions

\* The handler get_sujet_tree called with root_id.
get_sujets_tree ==
    /\ rev = "srv" /\ OnSujets /\ \E r \in SujetIdArgs : get_sujet_tree(r)
    /\ UNCHANGED sessions

post_actions ==
    /\ rev = "srv" /\ OnActions
    /\ \E s \in SujetIdArgs, p \in 0..MaxAction :
         \E st \in IF p = NULL THEN {"nouvelle"} \cup StatusArgsNow ELSE {"nouvelle"} :
           create_action(s, TaskName(1), st, p)
    /\ UNCHANGED sessions

post_actions_bulk ==
    /\ rev = "srv" /\ OnActions
    /\ \E s \in SujetIdArgs :
         \E f \in IF s \in Ids(sujet)
                   THEN ForestsUpTo(ActionRoom) \cup EmptyTaskBodies \cup StatusBodies
                   ELSE OneNode :
           \E k \in IF s \in Ids(sujet) THEN 0..(ForestSize(f) + 1) ELSE {0} :
             create_actions_bulk(s, f, k)
    /\ UNCHANGED sessions

get_actions_tree ==
    /\ rev = "srv" /\ OnActions /\ \E s \in SujetIdArgs : list_actions_tree_by_sujet(s)
    /\ UNCHANGED sessions

post_sujets_db ==
    /\ rev = "db1" /\ ~OnClients /\ ~OnConvs /\ ~OnList
    /\ \E c \in ConvArgs, l \in SujetLabelArgs \cup (IF OnSujets THEN {<<"y">>} ELSE {}) :
         create_sujet_db(c, l)
    /\ UNCHANGED sessions

post_sous_sujets ==
    /\ rev = "db1" /\ ~OnClients /\ ~OnConvs /\ ~OnList
    /\ OnReaders => /\ seq["sous_sujet"] = 0
                    /\ FirstAction /\ \A c \in Clients : sessions[c].pc = "idle"
    /\ \E s \in SujetIdArgs, l \in SujetLabelArgs : create_sous_sujet(s, l)
    /\ UNCHANGED sessions

post_actions_bulk_db ==
    /\ rev = "db1" /\ OnActions
    /\ \E ss \in 1..MaxSousSujet :
         \E f \in IF ss \in Ids(sous_sujet) THEN LegacyBodiesUpTo(LegacyRoom) \cup StatusBodies
                                           ELSE OneNode :
           \E k \in IF ss \in Ids(sous_sujet) THEN 0..(ForestSize(f) + 1) ELSE {0} :
             create_actions_bulk_db(ss, f, k)
    /\ UNCHANGED sessions

get_actions ==
    /\ rev = "db1" /\ OnActions
    /\ \E s \in SujetIdArgs : list_actions_by_sujet(s)
    /\ UNCHANGED sessions

get_tree_sujet ==
    /\ rev = "db1" /\ ~OnClients /\ ~OnConvs /\ ~OnList /\ ~OnReaders
    /\ \E s \in SujetIdArgs : get_full_tree_by_sujet(s)
    /\ UNCHANGED sessions

post_v2_sujets_tree ==
    /\ rev = "db2"
    /\ OnClients => seq["sujet"] < Cardinality(SujetIdArgs)
    /\ OnRequests => SetUp
    /\ \/ \E t \in SujetTreeArgs : create_sujet_tree_v2(t, 0)
       \/ \E t \in Trees : \E k \in 1..(Size(t) + 1) : OnSujets /\ create_sujet_tree_v2(t, k)
    /\ UNCHANGED sessions

get_v2_sujets_tree ==
    /\ rev = "db2" /\ OnSujets /\ \E r \in SujetIdArgs : get_sujet_tree_v2(r)
    /\ UNCHANGED sessions

post_v2_actions_tree ==
    /\ rev = "db2" /\ OnActions
    /\ \E s \in SujetIdArgs :
         \/ \E t \in IF s \notin Ids(sujet) THEN OneTree
                   ELSE IF FirstAction THEN TreeBodiesUpTo(ActionRoom) \cup StatusTrees
                   ELSE TreesUpTo(ActionRoom) \cup StatusTrees :
               create_action_tree_v2(s, t, 0)
         \/ \E t \in TreesUpTo(ActionRoom) : \E k \in 1..(Size(t) + 1) :
               s \in Ids(sujet) /\ create_action_tree_v2(s, t, k)
    /\ UNCHANGED sessions

get_v2_actions_tree ==
    /\ rev = "db2" /\ OnActions /\ \E s \in SujetIdArgs : get_actions_tree_v2(s)
    /\ UNCHANGED sessions

Next ==
    \/ post_save_conversation
    \/ get_conversations_id
    \/ get_conversations_id_image
    \/ get_conversations
    \/ post_sujets
    \/ get_sujets_tree
    \/ http_get_sujets
    \/ post_actions
    \/ post_actions_bulk
    \/ get_actions_tree
    \/ post_sujets_db
    \/ post_sous_sujets
    \/ post_actions_bulk_db
    \/ get_actions
    \/ get_tree_sujet
    \/ post_v2_sujets_tree
    \/ get_v2_sujets_tree
    \/ post_v2_actions_tree
    \/ get_v2_actions_tree
    \/ client_post_sujets_db
    \/ client_post_actions
    \/ client_post_actions_bulk
    \/ client_post_v2_actions_tree
    \/ client_post_actions_bulk_db
    \/ client_get_actions_tree
    \/ client_get_tree_sujet
    \/ client_select_sous_sujet
    \/ client_read_sujet
    \/ client_read
    \/ client_select_conversation
    \/ client_select_existing
    \/ client_select_sujet
    \/ client_select_parent
    \/ client_insert
    \/ client_raise
    \/ client_commit

Spec == Init /\ [][Next]_vars

\* ------------------------------------------------------------------ tree builders
\* The tree builders of GET /actions/tree (server.py) and GET /v2/actions/tree
\* (db.py) as functions of the rows they load: the action table starts as any
\* set of at most MaxLoaded rows over two sujets, each row with any parent id
\* (NULL, a row of its sujet, a row of the other sujet, itself, a row that does
\* not exist), and the only requests are the two reads.
Scopes == {1, 2}
LoadedRow(r, id, sujet_id, parent_action_id) ==
    IF r = "srv" THEN ActionRow(id, sujet_id, TaskName(id), "nouvelle", parent_action_id)
    ELSE [id |-> id, sujet_id |-> sujet_id, parent_action_id |-> parent_action_id,
          titre |-> TaskName(id), statut |-> "nouveau"]
LoadedTables(r) ==
    UNION { { { LoadedRow(r, i, f[i][1], f[i][2]) : i \in I } :
                f \in [I -> Scopes \X (0..MaxLoaded)] } : I \in SUBSET (1..MaxLoaded) }
ScopeRow(r, id) ==
    IF r = "srv" THEN [id |-> id, conversation_id |-> 1, sujet |-> <<"x">>, parent_id |-> NULL]
    ELSE [id |-> id, parent_sujet_id |-> NULL, titre |-> <<"x">>]
BuilderInit ==
    /\ rev \in {"srv", "db2"}
    /\ focus = "builder"
    /\ sessions = [c \in Clients |-> Idle]
    /\ conversations =
         IF rev = "srv"
         THEN {[id |-> 1, user_name |-> <<"m">>, conversation |-> <<"Q">>,
                date_conversation |-> 2, image_data |-> NoBytes, image_mime |-> NoText,
                image_filename |-> NoText]}
         ELSE {}
    /\ sujet = { ScopeRow(rev, id) : id \in Scopes }
    /\ sous_sujet = {}
    /\ action \in LoadedTables(rev)
    /\ sous_action = {}
    /\ sous_sous_action = {}
    /\ seq = [t \in TableNames |->
                CASE t = "conversations" -> Cardinality(conversations)
                  [] t = "sujet" -> Cardinality(Scopes)
                  [] t = "action" -> MaxLoaded
                  [] OTHER -> 0]
    /\ resp = Response("none", 0, <<>>, <<>>)

build_actions_tree ==
    /\ focus = "builder" /\ \E s \in Scopes : list_actions_tree_by_sujet(s)
    /\ UNCHANGED sessions

build_actions_tree_v2 ==
    /\ focus = "builder" /\ \E s \in Scopes : get_actions_tree_v2(s)
    /\ UNCHANGED sessions

BuilderNext ==
    \/ build_actions_tree
    \/ build_actions_tree_v2

Builder == BuilderInit /\ [][BuilderNext]_vars

\* ------------------------------------------------------------------ requests in progress
\* The recursive insert and the tree reads statement by statement and call by
\* call, after whole requests that create the conversation and the sujets: one
\* client writes, one reads, one request at a time.
RequestsInit ==
    /\ rev \in {"srv", "db2"}
    /\ focus = "requests"
    /\ sessions = [c \in Clients |-> Idle]
    /\ conversations = {}
    /\ sujet = {}
    /\ sous_sujet = {}
    /\ action = {}
    /\ sous_action = {}
    /\ sous_sous_action = {}
    /\ seq = [t \in TableNames |-> 0]
    /\ resp = Response("none", 0, <<>>, <<>>)

RequestsNext ==
    \/ post_save_conversation
    \/ post_sujets
    \/ post_v2_sujets_tree
    \/ client_post_actions_bulk
    \/ client_post_v2_actions_tree
    \/ client_select_sujet
    \/ client_insert
    \/ client_raise
    \/ client_commit
    \/ client_get_sujets_tree
    \/ client_get_v2_sujets_tree
    \/ client_get_v2_actions_tree
    \/ client_select_root
    \/ client_load
    \/ client_cte
    \/ client_descend

\* A handler is a plain def: the framework runs each request on a worker thread
\* of its own, and the store answers each statement. So a request that has a
\* next statement or call goes on to it, whatever the other client does; that
\* a statement raises is never required.
Proceed(c) ==
    /\ \/ client_select_sujet
       \/ client_insert
       \/ client_commit
       \/ client_select_root
       \/ client_load
       \/ client_cte
       \/ client_descend
    /\ sessions'[c] # sessions[c]

Requests ==
    RequestsInit /\ [][RequestsNext]_vars /\ \A c \in Clients : WF_vars(Proceed(c))

\* ------------------------------------------------------------------ properties
\* Every row of the node tables, with its table.
AllRows ==
    UNION { { <<"sujet", r>> : r \in sujet }, { <<"sous_sujet", r>> : r \in sous_sujet },
            { <<"action", r>> : r \in action }, { <<"sous_action", r>> : r \in sous_action },
            { <<"sous_sous_action", r>> : r \in sous_sous_action } }

BulkOps ==
    {"create_actions_bulk", "create_actions_bulk_db", "create_sujet_tree_v2",
     "create_action_tree_v2"}

\* The node list a successful bulk / tree write was sent, and the one it returned.
InForest(r) ==
    CASE r.op = "create_actions_bulk" -> r.req.items
      [] r.op = "create_actions_bulk_db" -> r.req.actions
      [] r.op = "create_sujet_tree_v2" -> <<r.req>>
      [] r.op = "create_action_tree_v2" -> <<r.req.root>>

OutForest(r) ==
    CASE r.op = "create_actions_bulk" -> r.body
      [] r.op = "create_actions_bulk_db" -> r.body.created
      [] r.op = "create_sujet_tree_v2" -> <<r.body>>
      [] r.op = "create_action_tree_v2" -> <<r.body>>

\* C1: a bulk / tree write is all-or-nothing: a request that does not answer 200
\* leaves every table as it was, and one that answers 200 keeps every old row and
\* adds exactly one row per node of its payload.
C1_AllOrNothing ==
    [][(resp'.op \in BulkOps /\ sessions' = sessions) =>
          IF resp'.status = 200
          THEN /\ AllRows \subseteq AllRows'
               /\ Cardinality(AllRows' \ AllRows) = ForestSize(InForest(resp'))
          ELSE AllRows' = AllRows]_vars

\* A bulk write failed after two of its inserts had been executed (the sequence
\* has moved on) and no row is left.
C1_Witness ==
    /\ resp.op = "create_actions_bulk" /\ resp.status = 500
    /\ action = {} /\ seq["action"] >= 2

\* The (id, parent id) pairs a returned forest stands for, below parent.
RECURSIVE Links(_, _)
Links(f, parent) ==
    IF f = <<>> THEN {}
    ELSE {<<Head(f).id, parent>>} \cup Links(Items(Head(f).children), Head(f).id)
                                  \cup Links(Tail(f), parent)

\* Two forests branch alike.
RECURSIVE SameShape(_, _)
SameShape(f, g) ==
    /\ Len(f) = Len(g)
    /\ \A i \in 1..Len(f) : SameShape(Items(f[i].children), Items(g[i].children))

RecursiveInserts == {"create_actions_bulk", "create_action_tree_v2"}

\* C2: the recursive inserter stores each payload root with a NULL parent, every
\* other node with the id assigned to its payload parent, every node under the
\* request's sujet, and returns the assigned ids nested as the payload is.
C2_ParentLinks ==
    [][(resp'.op \in RecursiveInserts /\ resp'.status = 200) =>
          LET new == action' \ action
              out == OutForest(resp')
          IN /\ SameShape(InForest(resp'), out)
             /\ Cardinality(new) = ForestSize(InForest(resp'))
             /\ { <<r.id, r.parent_action_id>> : r \in new } = Links(out, NULL)
             /\ \A r \in new : r.sujet_id = resp'.req.sujet_id]_vars

\* The payload A > B > C was inserted: three rows, chained by their assigned ids.
C2_Witness ==
    /\ resp.op = "create_actions_bulk" /\ resp.status = 200
    /\ LabelsF(resp.req.items) = <<TaskName(1), TaskName(2), TaskName(3)>>
    /\ \E a, b, c \in action :
          /\ a.parent_action_id = NULL /\ a.task = TaskName(1)
          /\ b.parent_action_id = a.id /\ b.task = TaskName(2)
          /\ c.parent_action_id = b.id /\ c.task = TaskName(3)
          /\ resp.body =
               <<[id |-> a.id,
                  children |-> List(<<[id |-> b.id,
                                       children |-> List(<<[id |-> c.id,
                                                            children |-> None]>>)]>>)]>>

\* A forest reduced to its ids and nesting, without the nodes (and what hangs
\* under them) whose id is not in ids.
RECURSIVE IdForest(_, _)
IdForest(f, ids) ==
    IF f = <<>> THEN <<>>
    ELSE (IF Head(f).id \in ids
          THEN <<[id |-> Head(f).id,
                  children |-> OrNone(IdForest(Items(Head(f).children), ids))]>>
          ELSE <<>>) \o IdForest(Tail(f), ids)

RECURSIVE ForestIds(_)
ForestIds(f) ==
    IF f = <<>> THEN {}
    ELSE {Head(f).id} \cup ForestIds(Items(Head(f).children)) \cup ForestIds(Tail(f))

\* A recursive insert and the tree read of the same hierarchy.
RoundTrips ==
    { <<"create_actions_bulk", "list_actions_tree_by_sujet">>,
      <<"create_action_tree_v2", "get_actions_tree_v2">> }

\* C3: a tree read that follows a successful recursive insert into the same
\* sujet returns, among its nodes, the inserted ones nested exactly as the
\* insert returned them (same ids, same children in the same order), which is
\* the shape of the payload.
C3_RoundTrip ==
    [][(/\ <<resp.op, resp'.op>> \in RoundTrips
        /\ resp.status = 200 /\ resp'.status = 200
        /\ resp'.req.sujet_id = resp.req.sujet_id) =>
          LET out == OutForest(resp)
              got == IdForest(resp'.body, ForestIds(out))
          IN /\ got = IdForest(out, ForestIds(out))
             /\ SameShape(got, InForest(resp))
             /\ Cardinality(ForestIds(got)) = ForestSize(InForest(resp))]_vars

\* A tree read returned a node A with the children B and C, in that order: the
\* payload A > (B, C) of a bulk insert, read back.
C3_Witness ==
    /\ resp.op = "list_actions_tree_by_sujet" /\ resp.status = 200
    /\ \E i \in 1..Len(resp.body) :
          /\ resp.body[i].task = TaskName(1)
          /\ ~resp.body[i].children.isNone
          /\ Len(resp.body[i].children.items) = 2
          /\ resp.body[i].children.items[1].task = TaskName(2)
          /\ resp.body[i].children.items[2].task = TaskName(3)

\* The request was answered 404 and nothing was inserted.
Refused404 == resp'.status = 404 /\ tables' = tables /\ seq' = seq

\* The tree writes and tree reads that name a scope, and whether the scope a
\* successful one named exists.
ScopedOps ==
    {"create_actions_bulk", "create_actions_bulk_db", "create_action_tree_v2",
     "list_actions_tree_by_sujet", "get_actions_tree_v2", "get_full_tree_by_sujet",
     "get_sujet_tree", "get_sujet_tree_v2"}

ScopeExists(r) ==
    CASE r.op = "create_actions_bulk_db" -> r.req.sous_sujet_id \in Ids(sous_sujet)
      [] r.op \in {"get_sujet_tree", "get_sujet_tree_v2"} -> r.req.root_id \in Ids(sujet)
      [] OTHER -> r.req.sujet_id \in Ids(sujet)

\* A request for a scope that does not exist, with a body that passes validation.
RequestOfMissing(s) ==
    \/ \E f \in OneNode : create_actions_bulk(s, f, 0)
    \/ \E t \in OneTree : create_action_tree_v2(s, t, 0)
    \/ list_actions_tree_by_sujet(s)
    \/ get_actions_tree_v2(s)
    \/ get_full_tree_by_sujet(s)
    \/ get_sujet_tree(s)
    \/ get_sujet_tree_v2(s)

C4_Step ==
    /\ (resp'.op \in ScopedOps /\ resp'.status = 200) => ScopeExists(resp')
    /\ (resp'.op \in ScopedOps /\ resp'.status = 404) => (tables' = tables /\ seq' = seq)
    /\ \A s \in SujetIdArgs :
          (s \notin Ids(sujet) /\ RequestOfMissing(s)) => Refused404
    /\ \A ss \in 1..MaxSousSujet :
          (ss \notin Ids(sous_sujet) /\ \E f \in OneNode : create_actions_bulk_db(ss, f, 0))
            => Refused404

\* C4: a tree write or tree read that names a scope which does not exist (a
\* sujet, a sous_sujet for the legacy bulk, a root sujet for the sujet tree
\* reads), with a body that passes validation, answers 404 and leaves every
\* table and every id sequence as it was: no such request is answered 200, and
\* no 404 of these operations comes with an insert.
C4_MissingScope == [][C4_Step]_vars

\* A bulk insert into a sujet that does not exist was answered 404 while the
\* action table held rows.
C4_Witness ==
    /\ resp.op = "create_actions_bulk" /\ resp.status = 404
    /\ action # {}
    /\ \E s \in SujetIdArgs : s \notin Ids(sujet)

SujetPosts == {"create_sujet", "create_sujet_db"}

\* C5: a successful POST /sujets repeated with the same request returns the id
\* the first call returned, and the table then holds exactly one row for the
\* (conversation_id, sujet) pair.
C5_Idempotent ==
    [][(/\ resp.op \in SujetPosts /\ resp.status = 200
        /\ resp'.op = resp.op /\ resp'.status = 200
        /\ resp'.req = resp.req) =>
          /\ resp'.body.id = resp.body.id
          /\ Cardinality({ r \in sujet' : /\ r.conversation_id = resp.req.conversation_id
                                          /\ r.sujet = resp.req.sujet }) = 1]_vars

\* C7: every successful POST /sous-sujets inserts a row under a fresh id, also
\* when a row with the same (sujet_id, titre) exists: the call repeated returns
\* another id.
C7_AlwaysInserts ==
    [][(resp'.op = "create_sous_sujet" /\ resp'.status = 200 /\ sessions' = sessions) =>
          /\ resp'.body.id \notin Ids(sous_sujet)
          /\ sous_sujet' = sous_sujet \cup {resp'.body}
          /\ resp'.body.sujet_id = resp'.req.sujet_id
          /\ resp'.body.titre = resp'.req.titre]_vars

\* Two identical requests were answered 200: two rows with the same pair.
C7_Witness ==
    /\ resp.op = "create_sous_sujet" /\ resp.status = 200
    /\ \E a, b \in sous_sujet :
          /\ a.id # b.id /\ a.sujet_id = b.sujet_id /\ a.titre = b.titre
          /\ b = resp.body

\* C7 as the spec states it: the second of two identical successful calls
\* returns the id of the first and the table holds one row for the pair.
C7_ReturnsExisting ==
    [][(/\ resp.op = "create_sous_sujet" /\ resp.status = 200
        /\ resp'.op = "create_sous_sujet" /\ resp'.status = 200
        /\ resp'.req = resp.req) =>
          /\ resp'.body.id = resp.body.id
          /\ Cardinality({ r \in sous_sujet' : /\ r.sujet_id = resp.req.sujet_id
                                               /\ r.titre = resp.req.titre }) = 1]_vars

\* Every parent reference of server.py's tables names a row of the same table
\* and of the same scope.
ParentsInScope ==
    rev = "srv" =>
      /\ \A r \in sujet :
            r.parent_id # NULL =>
              \E q \in sujet : q.id = r.parent_id /\ q.conversation_id = r.conversation_id
      /\ \A r \in action :
            r.parent_action_id # NULL =>
              \E q \in action : q.id = r.parent_action_id /\ q.sujet_id = r.sujet_id

\* The request was answered with status and nothing was inserted.
Refused(status) == resp'.status = status /\ tables' = tables /\ seq' = seq

\* A creation in an existing scope that names a missing parent is answered 404,
\* one that names a parent of another scope 400, and neither inserts.
C8_Refusals ==
    /\ resp'.op = "create_sujet" =>
          \A c \in Ids(conversations), p \in 1..MaxSujet :
            create_sujet(c, <<"x">>, p) =>
              IF p \notin Ids(sujet) THEN Refused(404)
              ELSE IF Row(sujet, p).conversation_id # c THEN Refused(400)
              ELSE resp'.status = 200
    /\ resp'.op = "create_action" =>
          \A t \in Ids(sujet), p \in 1..MaxAction :
            create_action(t, TaskName(1), "nouvelle", p) =>
              IF p \notin Ids(action) THEN Refused(404)
              ELSE IF Row(action, p).sujet_id # t THEN Refused(400)
              ELSE resp'.status = 200

\* C8: after any sequence of POST /sujets, POST /actions and POST /actions/bulk
\* every non-null parent reference names a row of the same table and scope; a
\* creation that names a missing parent is answered 404, one that names a parent
\* of another scope 400, and neither inserts.
C8_ParentInScope == []ParentsInScope /\ [][C8_Refusals]_vars

\* A sujet whose parent is in another conversation was refused with 400 while
\* the table held a sujet with a parent.
C8_Witness ==
    /\ resp.op = "create_sujet" /\ resp.status = 400
    /\ \E r \in sujet : r.parent_id # NULL

\* C6: whatever the interleaving of concurrent POST /sujets (db.py) requests,
\* the sujet table never holds two rows with the same (conversation_id, sujet).
C6_NoDuplicatePair ==
    rev = "db1" =>
      \A a, b \in sujet :
        (a.conversation_id = b.conversation_id /\ a.sujet = b.sujet) => a.id = b.id

\* The (id, parent id) pairs of the self-referencing tables.
SujetLinks ==
    CASE rev = "srv" -> { <<r.id, r.parent_id>> : r \in sujet }
      [] rev = "db2" -> { <<r.id, r.parent_sujet_id>> : r \in sujet }
      [] OTHER -> {}
ActionLinks ==
    IF rev \in {"srv", "db2"} THEN { <<r.id, r.parent_action_id>> : r \in action } ELSE {}

\* The ancestors of node n that at most fuel parent links lead to.
RECURSIVE Ancestors(_, _, _)
Ancestors(L, n, fuel) ==
    IF fuel = 0 THEN {}
    ELSE LET ps == { l[2] : l \in { m \in L : m[1] = n } } \ {NULL}
         IN ps \cup UNION { Ancestors(L, p, fuel - 1) : p \in ps }

Acyclic(L) == \A l \in L : l[1] \notin Ancestors(L, l[1], Cardinality(L))

\* C9: in every reachable state, after whole requests in any order or the
\* statements of concurrent requests in any interleaving, no sujet and no
\* action is its own ancestor.
C9_Acyclic == Acyclic(SujetLinks) /\ Acyclic(ActionLinks)

\* A bulk insert of A > B and a single insert ran interleaved and committed: B
\* hangs under A, and the id between theirs went to the other request.
C9_Witness ==
    /\ OnClients /\ rev = "srv"
    /\ \E a, b, x \in action :
          /\ b.parent_action_id = a.id /\ b.task = TaskName(2)
          /\ a.id < x.id /\ x.id < b.id

\* C10: every node a tree read returns belongs to the scope that was asked for:
\* an action of /actions/tree (and /v2/actions/tree) to the sujet, a sujet of
\* /sujets/tree to the conversation of the root, a sujet of /v2/sujets/tree to
\* the descendants of the root.
C10_ScopeOfRead ==
    /\ (resp.op \in {"list_actions_tree_by_sujet", "get_actions_tree_v2"} /\ resp.status = 200) =>
          \A i \in ForestIds(resp.body) :
            /\ i \in Ids(action)
            /\ Row(action, i).sujet_id = resp.req.sujet_id
    /\ (resp.op = "list_actions_tree_by_sujet" /\ resp.status = 200) =>
          \A n \in 1..Len(resp.body) : resp.body[n].sujet_id = resp.req.sujet_id
    /\ (resp.op = "get_sujet_tree" /\ resp.status = 200) =>
          \A i \in ForestIds(<<resp.body>>) :
            /\ i \in Ids(sujet)
            /\ Row(sujet, i).conversation_id = Row(sujet, resp.req.root_id).conversation_id
    /\ (resp.op = "get_sujet_tree_v2" /\ resp.status = 200) =>
          \A i \in ForestIds(<<resp.body>>) :
            /\ i \in Ids(sujet)
            /\ i = resp.req.root_id
                 \/ resp.req.root_id \in Ancestors(SujetLinks, i, Cardinality(sujet))

\* The actions of one sujet were read while another sujet had actions too.
C10_Witness ==
    /\ resp.op = "list_actions_tree_by_sujet" /\ resp.status = 200
    /\ resp.body # <<>>
    /\ \E r \in action : r.sujet_id # resp.req.sujet_id

\* C11: every response is produced with the connection its request opened
\* closed, whichever way the handler was left (200, 4xx or 500).
C11_ConnectionClosed == resp.conn = "closed"

\* C12: a tree insert answered 422 has executed no INSERT: the id sequences
\* are where they were before the request.
C12_Step ==
    (resp'.op = "create_sujet_tree_v2" /\ resp'.status = 422) => seq' = seq
C12_ValidationFirst == [][C12_Step]_vars

\* C13: a bulk / tree write answered 200 was sent no node with an empty label
\* (a payload with one is answered 422 and inserts nothing).
C13_EmptyLabelRefused ==
    (resp.op \in BulkOps /\ resp.status = 200) =>
        \A i \in 1..Len(LabelsF(InForest(resp))) : LabelsF(InForest(resp))[i] # <<>>

\* C14: db.py's POST /save-conversation stores an image that decodes to exactly
\* 10 * 1024 * 1024 bytes and answers 200; it answers 413 to one that decodes to
\* one byte more, and then the conversations table is as it was.
C14_Step ==
    (rev = "db1" /\ resp'.op = "save_conversation") =>
    \A i \in { j \in Images : \E n \in {MaxImageBytes, MaxImageBytes + 1} :
                                b64decode(j) = {Decoded(n)} }, fails \in BOOLEAN :
      save_conversation(Conversation(<<"m">>, <<"Q">>, 1, i), 2, fails) =>
        /\ (b64decode(i) = {Decoded(MaxImageBytes)} /\ ~fails) =>
              /\ resp'.status = 200
              /\ resp'.body.id \notin Ids(conversations)
              /\ \E r \in conversations' :
                    r.id = resp'.body.id /\ r.image_data = Bytes(MaxImageBytes)
        /\ b64decode(i) = {Decoded(MaxImageBytes + 1)} =>
              /\ resp'.status = 413
              /\ conversations' = conversations
C14_ImageLimit == [][C14_Step]_vars
C14_Witness ==
    /\ rev = "db1"
    /\ resp.op = "save_conversation" /\ resp.status = 413
    /\ \E r \in conversations : r.image_data = Bytes(MaxImageBytes)

\* C15: POST /save-conversation with an image_base64 that no decoder accepts
\* answers 422 and leaves the conversations table as it was.
C15_Step ==
    \A i \in Images :
      (resp'.op = "save_conversation" /\ b64decode(i) = {Invalid}
         /\ save_conversation(Conversation(<<"m">>, <<"Q">>, 1, i), 2, FALSE)) =>
        /\ resp'.status = 422
        /\ conversations' = conversations
C15_BadBase64 == [][C15_Step]_vars

\* A GET /conversations/{id} for the id that the POST /save-conversation just
\* before it returned, the POST having succeeded with no image.
RoundTripOfConversation ==
    /\ resp.op = "save_conversation" /\ resp.status = 200
    /\ resp.req.image_base64 = NoImage
    /\ resp'.op = "get_conversation_by_id"
    /\ get_conversation_by_id(resp.body.id)

\* The timestamp read back is the one supplied, or the server's clock when none
\* was supplied.
TimestampRoundTrip ==
    IF resp.req.date_conversation # NULL
    THEN resp'.body.date_conversation = resp.req.date_conversation
    ELSE resp'.body.date_conversation \in Clock

\* C16 (as stated): the conversation read back has the author and the text of the
\* request, and the supplied or a server-generated timestamp.
C16_SameAuthor ==
    [][RoundTripOfConversation =>
         /\ resp'.status = 200
         /\ resp'.body.user_name = resp.req.user_name
         /\ resp'.body.conversation = resp.req.conversation
         /\ TimestampRoundTrip]_vars

\* C16 (amended): the conversation read back has the author of the request
\* without its leading and trailing blanks, the text of the request unchanged,
\* and the supplied or a server-generated timestamp.
C16_RoundTrip ==
    [][RoundTripOfConversation =>
         /\ resp'.status = 200
         /\ resp'.body.id = resp.body.id
         /\ resp'.body.user_name = Strip(resp.req.user_name)
         /\ resp'.body.conversation = resp.req.conversation
         /\ TimestampRoundTrip]_vars
C16_Witness ==
    /\ resp.op = "get_conversation_by_id" /\ resp.status = 200
    /\ resp.body.user_name = <<"m">> /\ resp.body.conversation = <<" ", "Q">>
    /\ resp.body.date_conversation \in Clock

\* C17: a 500 carries the text of the store's exception, and an error the
\* handler raised itself keeps its 400 / 404 / 413 / 422.
C17_StoreFailure ==
    /\ resp.status = 500 => resp.detail = "exception"
    /\ resp.detail = "handler" => resp.status \in {400, 404, 413, 422}

\* The state a stored status label denotes: the labels of the API in server.py
\* and the legacy tables, those of STATUS_MAP_APP_TO_DB in the /v2 tables.
Denotes(label) ==
    CASE label \in {"nouvelle", "nouveau"} -> "new"
      [] label = "en_cours" -> "in_progress"
      [] label \in {"bloquee", "bloque"} -> "blocked"
      [] label \in {"terminee", "termine"} -> "done"
      [] label = "annulee" -> "cancelled"
      [] OTHER -> "none"
StoredStatus(r) == IF "statut" \in DOMAIN r THEN r.statut ELSE r.status
ClosedStatuses ==
    \A r \in action \cup sous_action \cup sous_sous_action :
        Denotes(StoredStatus(r)) \in {"new", "in_progress", "blocked", "done", "cancelled"}

\* A request that carries a status outside the Literal is answered 422 and
\* leaves the tables as they were, in an existing scope or not.
StatusRefused ==
    \A s \in 1..MaxSujet, st \in StatusArgs \ Statuses :
      /\ (resp'.op = "create_action" /\ create_action(s, TaskName(1), st, NULL))
            => Refused(422)
      /\ \A t \in OneTree :
            /\ (resp'.op = "create_actions_bulk"
                  /\ create_actions_bulk(s, <<WithStatus(t, st)>>, 0)) => Refused(422)
            /\ (resp'.op = "create_actions_bulk_db"
                  /\ create_actions_bulk_db(s, <<WithStatus(t, st)>>, 0)) => Refused(422)
            /\ (resp'.op = "create_action_tree_v2"
                  /\ create_action_tree_v2(s, WithStatus(t, st), 0)) => Refused(422)

\* C18: every stored action status denotes one of new, in_progress, blocked,
\* done, cancelled, and a request whose status is outside the closed set is
\* answered 422 and stores nothing.
C18_ClosedStatus == []ClosedStatuses /\ [][StatusRefused]_vars
C18_Witness ==
    /\ resp.op = "create_actions_bulk" /\ resp.status = 422
    /\ \E r \in action : r.status = "annulee"

\* C19: the hierarchy is append-only: every step keeps every row of the node
\* tables as it is (same id, parent, scope and attributes).
C19_AppendOnly == [][AllRows \subseteq AllRows']_vars
C19_Witness ==
    /\ resp.op = "create_action" /\ resp.status = 200
    /\ resp.body.parent_action_id # NULL
    /\ \E r \in action : r.id = resp.body.parent_action_id /\ r.parent_action_id # NULL

\* The bulk / tree insertions in progress, and the ids one has been given.
TreeSessions ==
    { c \in Clients : sessions[c].op \in {"create_actions_bulk", "create_action_tree_v2"} }
SessionIds(c) == { sessions[c].ids[k] : k \in 1..Len(sessions[c].ids) }

\* The ids given to concurrent insertions are pairwise distinct, within one
\* request, between two requests, and against the committed rows.
DistinctIds ==
    \A c \in TreeSessions :
      /\ Cardinality(SessionIds(c)) = Len(sessions[c].ids)
      /\ SessionIds(c) \cap Ids(action) = {}
      /\ \A d \in TreeSessions \ {c} : SessionIds(c) \cap SessionIds(d) = {}

\* The commit of an insertion adds one row per node of its payload, in its
\* scope: a payload root is a root (NULL parent), and every other node has as
\* parent the row of its payload parent, a row of the same request.
CommitsOwnTree ==
    \A c \in TreeSessions :
      (sessions[c].pc = "commit" /\ sessions'[c].pc = "idle" /\ action' # action) =>
        LET s == sessions[c] IN
          /\ Ids(action') = Ids(action) \cup SessionIds(c)
          /\ action \subseteq action'
          /\ Len(s.ids) = Len(s.todo)
          /\ \A k \in 1..Len(s.todo) :
                LET r == Row(action', s.ids[k]) IN
                  /\ r.sujet_id = s.scope
                  /\ r.parent_action_id =
                        IF s.todo[k].up = 0 THEN NULL ELSE s.ids[s.todo[k].up]
                  /\ r.parent_action_id \notin
                        UNION { SessionIds(d) : d \in TreeSessions \ {c} }

\* C20: two concurrent bulk / tree insertions into one scope that both commit
\* get pairwise distinct ids, no node of one has a parent inserted by the
\* other, and each payload is stored as roots of its own with its shape.
C20_Independent == []DistinctIds /\ [][CommitsOwnTree]_vars
C20_Witness ==
    /\ sessions["c2"].op \in {"create_actions_bulk", "create_action_tree_v2"}
    /\ sessions["c2"].pc = "commit"
    /\ \E r \in action, i, j \in 1..Len(sessions["c2"].ids) :
          /\ r.sujet_id = sessions["c2"].scope
          /\ sessions["c2"].ids[i] < r.id /\ r.id < sessions["c2"].ids[j]
          /\ sessions["c2"].todo[j].up = i

\* C21: a GET /conversations answered 200 returns at most `limit` items: the
\* conversations matching the filters that stand at the places offset ..
\* offset + limit - 1 of the order (date_conversation descending, id
\* descending): the item at place i of the page is a matching conversation that
\* exactly offset + i - 1 matching conversations precede, the page is as long as
\* the matching conversations from place offset on allow, up to limit, and total
\* is the number of all matching conversations, whatever limit and offset are.
Listed == resp.op = "list_conversations" /\ resp.status = 200
Matching == { r \in conversations : Matches(r, resp.req.date, resp.req.user_name) }
Preceding(item) ==
    { r \in Matching :
        \/ r.date_conversation > item.date_conversation
        \/ r.date_conversation = item.date_conversation /\ r.id > item.id }
C21_Page ==
    Listed =>
      LET items == resp.body.items
          rest == Cardinality(Matching) - resp.req.offset
      IN /\ resp.body.total = Cardinality(Matching)
         /\ Len(items) <= resp.req.limit
         /\ Len(items) = Min(resp.req.limit, IF rest > 0 THEN rest ELSE 0)
         /\ \A i \in 1..Len(items) :
              /\ \E r \in Matching :
                   /\ r.id = items[i].id
                   /\ r.user_name = items[i].user_name
                   /\ r.date_conversation = items[i].date_conversation
              /\ Cardinality(Preceding(items[i])) = resp.req.offset + i - 1
\* The second page of one item, of two conversations the later of which has the
\* earlier timestamp; a filter that leaves one conversation out.
C21_Witness ==
    /\ Listed
    /\ resp.req.limit = 1 /\ resp.req.offset = 1
    /\ resp.body.total = 2
    /\ Len(resp.body.items) = 1 /\ resp.body.items[1].id = 2
C21_WitnessFilter ==
    /\ Listed
    /\ resp.req.user_name # <<>>
    /\ resp.body.total = 1 /\ Cardinality(conversations) = 2

\* C22: GET /conversations/{id}/image answers 200 with the stored bytes and the
\* stored mime type exactly when the conversation exists and was saved with an
\* image, and 404 otherwise; it returns an image if and only if
\* GET /conversations/{id} reports has_image = true. A conversation is saved
\* with an image when its request carries a non-empty image_base64, and its row
\* then keeps the decoded bytes and the mime type of the request.
SavedWithImage(body) ==
    ~body.image_base64.isNone /\ body.image_base64.data + body.image_base64.pad > 0
C22_Save ==
    (rev = "db1" /\ resp'.op = "save_conversation" /\ resp'.status = 200) =>
      LET row == Row(conversations', resp'.body.id)
      IN /\ ~row.image_data.isNone <=> SavedWithImage(resp'.req)
         /\ SavedWithImage(resp'.req) =>
              Decoded(row.image_data.len) \in b64decode(resp'.req.image_base64)
         /\ ~resp'.req.image_mime.isNone /\ resp'.req.image_mime.text # <<>> =>
              row.image_mime = resp'.req.image_mime
C22_Download ==
    \A id \in ConvArgs :
      (resp'.op = "download_conversation_image" /\ download_conversation_image(id)) =>
        LET has_image == /\ id \in Ids(conversations)
                         /\ ConversationDetail(Row(conversations, id)).has_image
            row == Row(conversations, id)
        IN /\ resp'.status = 200 <=> has_image
           /\ resp'.status # 200 => resp'.status = 404
           /\ resp'.status = 200 =>
                /\ ~row.image_data.isNone
                /\ resp'.body.content = row.image_data
                /\ ~row.image_mime.isNone => resp'.body.media_type = row.image_mime.text
C22_Image == [][C22_Save /\ C22_Download /\ conversations \subseteq conversations']_vars
C22_Witness ==
    /\ resp.op = "download_conversation_image" /\ resp.status = 200
    /\ resp.body.media_type = <<"p">> /\ resp.body.content = Bytes(1)
    /\ \E r \in conversations : r.image_data.isNone

\* The ids of a forest, parents before children and siblings in their order.
RECURSIVE FlatIds(_)
FlatIds(f) ==
    IF f = <<>> THEN <<>>
    ELSE <<Head(f).id>> \o FlatIds(Items(Head(f).children)) \o FlatIds(Tail(f))

\* The node of id i is a child of the node of id p somewhere in forest f.
RECURSIVE ChildIn(_, _, _)
ChildIn(f, p, i) ==
    /\ f # <<>>
    /\ \/ /\ Head(f).id = p
          /\ \E k \in 1..Len(Items(Head(f).children)) : Items(Head(f).children)[k].id = i
       \/ ChildIn(Items(Head(f).children), p, i)
       \/ ChildIn(Tail(f), p, i)

ActionTreeRead ==
    resp.op \in {"list_actions_tree_by_sujet", "get_actions_tree_v2"} /\ resp.status = 200
Loaded == { r \in action : r.sujet_id = resp.req.sujet_id }

\* C23: for any set of rows loaded for a scope (here: any whose parent links form
\* no cycle), the tree builder places every loaded row exactly once in the
\* returned forest: a row whose parent id is null or is not among the loaded
\* rows is a root, every other row is a child of its parent, and no loaded row
\* is dropped.
C23_EveryRowOnce ==
    (ActionTreeRead /\ Acyclic(ActionLinks)) =>
      LET ids == FlatIds(resp.body) IN
      \A r \in Loaded :
        /\ Cardinality({ k \in 1..Len(ids) : ids[k] = r.id }) = 1
        /\ IF r.parent_action_id = NULL \/ r.parent_action_id \notin Ids(Loaded)
           THEN \E n \in 1..Len(resp.body) : resp.body[n].id = r.id
           ELSE ChildIn(resp.body, r.parent_action_id, r.id)

\* The ids of a list of nodes increase, and so do those of the children of each.
RECURSIVE Ascending(_)
Ascending(f) ==
    /\ \A k \in 1..(Len(f) - 1) : f[k].id < f[k + 1].id
    /\ \A k \in 1..Len(f) : Ascending(Items(f[k].children))
Increasing(ids) == \A k \in 1..(Len(ids) - 1) : ids[k] < ids[k + 1]

\* C24: in every tree returned by a tree read, the children of each node, and
\* the roots of a forest, are listed in ascending id order: the recursive reads
\* of server.py and of /v2, and each level of the legacy GET /tree/sujet.
C24_AscendingIds ==
    /\ ActionTreeRead => Ascending(resp.body)
    /\ (resp.op \in {"get_sujet_tree", "get_sujet_tree_v2"} /\ resp.status = 200) =>
          Ascending(<<resp.body>>)
    /\ (resp.op = "get_full_tree_by_sujet" /\ resp.status = 200) =>
          LET ss == resp.body.sous_sujets IN
          /\ Increasing([k \in 1..Len(ss) |-> ss[k].sous_sujet_id])
          /\ \A k \in 1..Len(ss) :
               LET as == Items(ss[k].actions) IN
               /\ Increasing([a \in 1..Len(as) |-> as[a].action_id])
               /\ \A a \in 1..Len(as) :
                    LET sa == Items(as[a].sous_actions) IN
                    /\ Increasing([b \in 1..Len(sa) |-> sa[b].sous_action_id])
                    /\ \A b \in 1..Len(sa) :
                         LET ssa == Items(sa[b].sous_sous_actions)
                         IN Increasing([c \in 1..Len(ssa) |-> ssa[c].sous_sous_action_id])
\* An action read back with two children, a forest of two roots, and a sujet
\* read back with a child.
C24_Witness ==
    /\ resp.op = "list_actions_tree_by_sujet" /\ resp.status = 200
    /\ \E k \in 1..Len(resp.body) : Len(Items(resp.body[k].children)) >= 2
C24_WitnessForest ==
    /\ resp.op = "list_actions_tree_by_sujet" /\ resp.status = 200
    /\ Len(resp.body) >= 2
C24_WitnessSujet ==
    /\ resp.op = "get_sujet_tree_v2" /\ resp.status = 200
    /\ Len(Items(resp.body.children)) >= 1

\* The sujets that parent links lead from to the sujet of id r.
Descendants(r) ==
    { i \in Ids(sujet) : r \in Ancestors(SujetLinks, i, Cardinality(sujet)) }

\* C25: a subject-tree read with root id R answers 404 when no sujet has the id
\* R, and otherwise returns a tree rooted at R that holds R and every
\* transitive descendant of R exactly once and no other sujet, also when R is
\* itself the child of another sujet.
C25_Step ==
    \A r \in SujetIdArgs :
      (resp'.op \in {"get_sujet_tree", "get_sujet_tree_v2"}
         /\ (get_sujet_tree(r) \/ get_sujet_tree_v2(r))) =>
        IF r \notin Ids(sujet) THEN resp'.status = 404
        ELSE LET ids == FlatIds(<<resp'.body>>) IN
             /\ resp'.status = 200
             /\ resp'.body.id = r
             /\ \A j, k \in 1..Len(ids) : ids[j] = ids[k] => j = k
             /\ { ids[k] : k \in 1..Len(ids) } = {r} \cup Descendants(r)
C25_WitnessChild ==
    /\ resp.op = "get_sujet_tree" /\ resp.status = 200
    /\ Row(sujet, resp.req.root_id).parent_id # NULL

\* C26: with routes matched in registration order, GET /sujets/tree?root_id=R
\* for an existing sujet R is handled by get_sujet_tree and answered 200 with
\* the recursive tree starting at R; the route GET /sujets/{id}, registered
\* before it, does not capture it.
C26_Step ==
    \A r \in SujetIdArgs :
      (rev = "srv" /\ r \in Ids(sujet) /\ http_get(<<"sujets", "tree">>, r)) =>
        /\ resp'.op = "get_sujet_tree"
        /\ resp'.status = 200
        /\ resp'.body = sujet_tree(r)
C26_TreeRoute == [][C26_Step]_vars

\* The <<id, status>> pairs of the nodes of a forest.
RECURSIVE StatusById(_)
StatusById(f) ==
    IF f = <<>> THEN {}
    ELSE {<<Head(f).id, Head(f).status>>} \cup StatusById(Items(Head(f).children))
         \cup StatusById(Tail(f))

\* C27: the actions a POST /v2/actions/tree inserted are read back by
\* GET /v2/actions/tree of its sujet with a status that denotes the state that
\* was submitted and echoed by the insert, and two of them submitted with
\* different statuses are read back with different statuses.
C27_StatusRoundTrip ==
    (resp.op = "create_action_tree_v2" /\ resp.status = 200) =>
      LET echoed == StatusById(<<resp.body>>)
          read == StatusById(actions_tree_v2(resp.req.sujet_id))
      IN /\ \A e \in echoed :
              \E r \in read : r[1] = e[1] /\ Denotes(r[2]) = Denotes(e[2])
         /\ \A e, f \in echoed :
              e[2] # f[2] =>
                \A r, q \in read : (r[1] = e[1] /\ q[1] = f[1]) => r[2] # q[2]

\* The action lists of the sous-sujets of a tree, one after the other.
RECURSIVE UnderSousSujets(_)
UnderSousSujets(ss) ==
    IF ss = <<>> THEN <<>>
    ELSE UnderSousSujets(SubSeq(ss, 1, Len(ss) - 1)) \o Items(ss[Len(ss)].actions)

\* C28: for every existing sujet S, in every store state, the action list that
\* the legacy GET /actions?sujet_id=S returns is the concatenation, in ascending
\* sous-sujet id order, of the action lists that GET /tree/sujet?sujet_id=S
\* returns under each sous-sujet: same nesting, same order, same attributes.
\* (Both reads taken as one step on the store; a read that runs beside a writer
\* is the matter of C29.)
C28_SameActions ==
    /\ (resp.op = "list_actions_by_sujet" /\ resp.status = 200) =>
          /\ resp.req.sujet_id \in Ids(sujet)
          /\ resp.body.actions = UnderSousSujets(full_tree(resp.req.sujet_id))
    /\ (resp.op = "get_full_tree_by_sujet" /\ resp.status = 200 /\ ~OnReaders) =>
          /\ Increasing([k \in 1..Len(resp.body.sous_sujets) |->
                           resp.body.sous_sujets[k].sous_sujet_id])
          /\ UnderSousSujets(resp.body.sous_sujets)
               = actions_of(OrderById({ r \in sous_sujet : r.sujet_id = resp.req.sujet_id }))
\* The actions of a sujet whose two sous-sujets both have actions, one of them
\* with a sous-action.
C28_Witness ==
    /\ resp.op = "list_actions_by_sujet" /\ resp.status = 200
    /\ Len(resp.body.actions) >= 2
    /\ \E k \in 1..Len(resp.body.actions) : ~resp.body.actions[k].sous_actions.isNone
    /\ LET ss == full_tree(resp.req.sujet_id)
       IN Len(ss) = 2 /\ \A k \in 1..2 : ~ss[k].actions.isNone

\* What a tree read returned: the actions under the sous-sujets of a legacy
\* tree, and below an action the rows of the store that hang under it.
ReadReturned == resp.op \in ReadOps /\ resp.status = 200
ReadActions == UnderSousSujets(resp.body.sous_sujets)
StoredUnder(action_id) == sous_action_items(action_id)

\* C29: a tree read that runs beside a bulk insert into the same scope observes
\* no partial tree: for each root of a payload, the result holds the root with
\* all of its payload descendants or none of these nodes, wherever the writer's
\* inserts and commit fall between the reader's queries. A payload's root is an
\* action without parent (server.py) or an action of a sous-sujet (db.py), and
\* its descendants are the rows under it in the store.
C29_NoPartialTree ==
    /\ (ReadReturned /\ resp.op = "list_actions_tree_by_sujet" /\ OnReaders) =>
          \A k \in 1..Len(resp.body) :
            LET root == Row(action, resp.body[k].id)
                rows == OrderById({ r \in action : r.sujet_id = resp.req.sujet_id })
            IN /\ resp.body[k].id \in Ids(action)
               /\ root.parent_action_id = NULL
               /\ resp.body[k] = action_to_model(rows, root)
    /\ (ReadReturned /\ resp.op = "get_full_tree_by_sujet") =>
          /\ \A k \in 1..Len(ReadActions) :
               ReadActions[k].sous_actions = OrNone(StoredUnder(ReadActions[k].action_id))
          /\ \A r \in sous_action :
               (\A k \in 1..Len(ReadActions) : ReadActions[k].action_id # r.action_id) =>
                 \A k \in 1..Len(ReadActions) :
                   \A j \in 1..Len(Items(ReadActions[k].sous_actions)) :
                     Items(ReadActions[k].sous_actions)[j].sous_action_id # r.id
\* A read in progress has fetched an action with its sous-action, and the store
\* holds an action of a sous-sujet whose actions it fetched before that action
\* was committed.
C29_Witness ==
    \E c \in Readers :
      LET s == sessions[c] IN
      /\ s.op = "get_full_tree_by_sujet" /\ s.pc = "read"
      /\ \E a \in Fetched(s.own, "action"), b \in Fetched(s.own, "sous_action") :
           b.action_id = a.id
      /\ \E a \in action :
           /\ a \notin Fetched(s.own, "action")
           /\ \E ss \in Fetched(s.own, "sous_sujet") : ss.id = a.id_sous_sujet
           /\ \A k \in 1..Len(s.todo) :
                ~(s.todo[k].table = "action" /\ s.todo[k].key = a.id_sous_sujet)
\* A read returned a tree although a payload was committed between two of its
\* queries: an action of the scope is in the store and not in the result, and
\* the writer is idle.
C29_WitnessReturned ==
    /\ ReadReturned /\ resp.op = "get_full_tree_by_sujet" /\ OnReaders
    /\ \E k \in 1..Len(ReadActions) : ~ReadActions[k].sous_actions.isNone
    /\ \E a \in action : \A k \in 1..Len(ReadActions) : ReadActions[k].action_id # a.id

\* ------------------------------------------------------------------ C30
\* The step of client c: an INSERT of a recursive insert stores one row of the
\* client for the next node of the payload and returns one id; the request goes
\* on to the commit exactly when every node of the payload has its row.
OneInsertPerNode(c) ==
    LET s == sessions[c]
        t == sessions'[c]
    IN s.op \in RecursiveInserts /\ s.pc = "insert" /\ t.pc # "idle" =>
         /\ t.todo = s.todo
         /\ Len(t.ids) = Len(s.ids) + 1
         /\ Cardinality(t.own) = Cardinality(s.own) + 1
         /\ t.pc = (IF Len(t.ids) = Len(t.todo) THEN "commit" ELSE "insert")

\* The commit of a recursive insert stores one new row for each payload node.
CommitsPayload(c) ==
    LET s == sessions[c]
    IN s.op \in RecursiveInserts /\ s.pc = "commit" /\ action' # action =>
         /\ Cardinality(action' \ action) = Len(s.todo)
         /\ Len(s.ids) = Len(s.todo)

\* A call of the descent is for a node no earlier call was for.
NeverRevisits(c) ==
    LET s == sessions[c]
    IN s.op \in TreeReads /\ s.pc = "descend" =>
         Head(s.todo) \notin { s.ids[i] : i \in 1..Len(s.ids) }

\* A tree read that ends with 200 made one call for each node of its response.
VisitsResponse(c) ==
    LET s == sessions[c]
        body == IF s.op = "get_actions_tree_v2" THEN resp'.body ELSE <<resp'.body>>
    IN s.op \in TreeReads /\ s.pc = "descend" /\ sessions'[c].pc = "idle" =>
         /\ resp'.op = s.op /\ resp'.status = 200
         /\ FlatIds(body) = Append(s.ids, Head(s.todo))

C30_Step ==
    \A c \in Clients :
      sessions'[c] # sessions[c] =>
        OneInsertPerNode(c) /\ CommitsPayload(c) /\ NeverRevisits(c) /\ VisitsResponse(c)

Busy(c) == sessions[c].pc # "idle"

\* C30: every request eventually completes. A recursive insert issues exactly
\* one INSERT per node of its payload and then commits and returns; a tree read
\* on a store reached through the API ends, and its descent along the parent
\* links never comes to a node twice.
C30_Completes ==
    /\ [][C30_Step]_vars
    /\ \A c \in Clients : Busy(c) ~> ~Busy(c)

\* A recursive insert of a node, its child and its grandchild has committed and
\* returned, and a tree read has descended through the three and returned them.
C30_Witness ==
    /\ \A c \in Clients : ~Busy(c)
    /\ resp.op = "get_actions_tree_v2" /\ resp.status = 200
    /\ Cardinality(action) = 3
    /\ Len(resp.body) = 1
    /\ Len(Items(resp.body[1].children)) = 1
    /\ Len(Items(Items(resp.body[1].children)[1].children)) = 1

\* A recursive insert has stored the last of three nodes and is about to commit.
C30_WitnessInsert ==
    \E c \in Clients :
      /\ sessions[c].op \in RecursiveInserts
      /\ sessions[c].pc = "commit"
      /\ Len(sessions[c].ids) = 3

\* A tree read has descended from a node to its child and on to a grandchild.
C30_WitnessDescent ==
    \E c \in Clients :
      LET s == sessions[c] IN
      /\ s.op \in TreeReads /\ s.pc = "descend" /\ Len(s.ids) >= 2
      /\ LET rows == OrderById(Fetched(s.own, LoadedTable(s.op)))
         IN /\ s.ids[2] \in { children_of(s.op, rows, s.ids[1])[i] :
                                i \in 1..Len(children_of(s.op, rows, s.ids[1])) }
            /\ Head(s.todo) \in { children_of(s.op, rows, s.ids[2])[i] :
                                    i \in 1..Len(children_of(s.op, rows, s.ids[2])) }

====
